---- MODULE Spec2Model ----
(***************************************************************************)
(* A model of the document-investigation suite: the DocumentIngester       *)
(* pipeline (src/src/ingest.py) over the db.py store, the main.py batch    *)
(* (librarian.py + db.py), the database.py corpus store, text              *)
(* normalisation, the co-occurrence graph builder and the silence-interval *)
(* detectors.                                                              *)
(***************************************************************************)
EXTENDS Integers, Sequences, FiniteSets, TLC

\* ------------------------------------------------------------------ bounds
MaxFiles == 2
MaxContent == 2
MaxLen == 3
MaxCalls == 5
MaxDocs == 2
MaxDay == 4

Files == 1..MaxFiles
Contents == 1..MaxContent

\* ------------------------------------------------------------------ values
\* Python's None for an Optional[str] hash / Optional[int] id (also the empty
\* hash string "" that librarian.compute_file_hash returns on error: both are
\* falsy and the callers test `if not file_hash`).
None == 0

\* An Optional[str] text: <<>> is None, <<t>> is the string t (a sequence of
\* characters, <<>> being the empty string "").
NoText == <<>>
Some(t) == <<t>>
Truthy(opt) == opt # NoText /\ opt[1] # <<>>

\* hashlib.sha256 over the bytes of a file: collision-free on the contents of
\* the model, so the digest of content c is named by c itself (never None).
sha256(content) == content

\* ------------------------------------------------------------------ text
\* Character classes of a Python str, as the three regex/str steps of
\* clean_text tell them apart:
\*   "a"    a letter: NFKD-stable, not whitespace, not a control character
\*   " "    U+0020
\*   "ws"   another character matched by \s (tab, newline, \x0b, \x0c, \x1c-\x1f)
\*   "nul"  a control character in [\x00-\x08\x0e-\x1b\x7f]: not matched by \s
\*   "nbsp" U+00A0, whose NFKD compatibility decomposition is U+0020
Chars == {"a", " ", "ws", "nul", "nbsp"}

IsSpace(c) == c \in {" ", "ws"}
IsControl(c) == c = "nul"

RECURSIVE TextsUpTo(_)
TextsUpTo(n) ==
    IF n = 0 THEN {<<>>}
    ELSE LET shorter == TextsUpTo(n - 1)
         IN shorter \cup {Append(t, c) : t \in {s \in shorter : Len(s) = n - 1}, c \in Chars}

\* unicodedata.normalize('NFKD', text)
NFKD(text) == [i \in 1..Len(text) |-> IF text[i] = "nbsp" THEN " " ELSE text[i]]

\* re.sub(r'\s+', ' ', text): every maximal run of whitespace becomes one U+0020
RECURSIVE CollapseWhitespace(_)
CollapseWhitespace(text) ==
    IF text = <<>> THEN <<>>
    ELSE IF IsSpace(Head(text))
         THEN IF Len(text) > 1 /\ IsSpace(text[2])
              THEN CollapseWhitespace(Tail(text))
              ELSE <<" ">> \o CollapseWhitespace(Tail(text))
         ELSE <<Head(text)>> \o CollapseWhitespace(Tail(text))

\* text.strip(): leading and trailing whitespace removed
RECURSIVE LStrip(_)
LStrip(text) ==
    IF text # <<>> /\ IsSpace(Head(text)) THEN LStrip(Tail(text)) ELSE text

RECURSIVE RStrip(_)
RStrip(text) ==
    IF text # <<>> /\ IsSpace(text[Len(text)])
    THEN RStrip(SubSeq(text, 1, Len(text) - 1))
    ELSE text

Strip(text) == RStrip(LStrip(text))

\* re.sub(r'[\x00-\x08\x0b-\x0c\x0e-\x1f\x7f]', '', text)
RemoveControl(text) == SelectSeq(text, LAMBDA c : ~IsControl(c))

\* DocumentIngester.clean_text
clean_text(text) ==
    IF text = <<>> THEN <<>>
    ELSE RemoveControl(Strip(CollapseWhitespace(NFKD(text))))

\* ------------------------------------------------------------------ state
VARIABLES
    \* the scanned directory and the external text extractor
    fs,                 \* file path -> byte content
    extractor,          \* content -> what the extraction backend yields for it
    \* db.py InvestigationDB
    documents,          \* rows of the documents table
    next_id,            \* AUTOINCREMENT of documents.id
    \* ingest.py DocumentIngester
    processed_hashes,   \* DocumentIngester.processed_hashes
    extract_calls,      \* history: the extractor calls made, and whether the
                        \* fingerprint was already known when each was made
    last,               \* history: what the last ingest of a file returned
    \* main.py process_documents, one run per caller
    pc,                 \* caller -> where its run stands
    unique_docs,        \* caller -> the unique documents it has still to store
    counts,             \* caller -> processed_count, skipped_count, error_count
    outcome,            \* history: caller -> how its last document was counted,
                        \* and whether its insert met a row stored after its check
    unique_total,       \* caller -> len(unique_docs), as the summary logs it
    extracted_from,     \* history: the files whose text went to extract_entities
    \* clean_text applied once and twice to one raw text
    raw_text, cleaned_once, cleaned_twice,
    \* database.py InvestigationDB
    corpus_documents,   \* rows of its documents table
    entities,           \* rows of its entities table
    entity_connections, \* rows of its entity_connections table
    sqlite_sequence,    \* table -> the last AUTOINCREMENT id handed out
    add_entity_calls,   \* history: (name, entity_type) -> add_entity calls made
    store_calls,        \* number of calls made on the store
    \* graph_analyst.py GraphAnalyst
    rows,               \* what SELECT ... FROM documents returns: the texts, in order
    row,                \* the row the loop of build_graph is at
    graph,              \* self.graph: the nodes and the adjacency of the nx.Graph
    entity_documents,   \* self.entity_documents
    bridge_nodes,       \* what calculate_bridge_nodes returned: each node's score
    \* analytics.py TimelineEngine and timeline_auditor.py TimelineAuditor
    doc_dates,          \* document -> the dates its text mentions, in text order
    threshold,          \* min_gap_days / gap_days of the call
    silence_intervals,  \* what find_silence_intervals returned
    findings,           \* the findings it stored
    gaps,               \* what identify_silence_intervals returned
    \* analytics.py ConnectorEngine
    db_entities,        \* what db.get_all_entities() returns: the rows, in id order
    db_cooccurrences,   \* the entity pairs db.get_entity_cooccurrences() returns
    min_centrality,     \* min_centrality of the call, a rational
    max_degree,         \* max_degree of the call
    connector_graph,    \* self.graph: <<>> for None, or <<g>> with g the nodes in
                        \* insertion order and the edges
    bridges,            \* what find_bridges returned
    bridge_findings,    \* the findings find_bridges stored
    \* analytics.py AnomalyEngine
    db_documents,       \* what db.get_all_documents() returns: id and content, the
                        \* content as the currency amounts its text holds
    min_sample_size,    \* min_sample_size of the call
    chi_square_threshold, \* chi_square_threshold of the call, in thousandths
    violations,         \* what detect_benfords_law_violation returned, or that it raised
    benford_findings,   \* the findings it stored
    \* the detectors of analytics.py called again and again on one corpus
    detector_calls,     \* number of detector calls made
    \* ingest.py DocumentIngester.ingest_directory
    batch_pc,           \* where ingest_directory is: "scan", "loop" or "returned"
    files,              \* what scan_directory returned
    file_index,         \* the files the loop has been through
    results,            \* the (file_path, file_hash, cleaned_text) list
    process_calls,      \* every call of process_file so far: the file and what
                        \* it returned, in call order
    \* the fingerprint functions of ingest.py, librarian.py, analytics/database.py
    hash_docs,          \* two documents: filename and content of each
    fingerprints,       \* <<>>, or the fingerprints the functions gave each of them
    \* the date parsing of analytics.py TimelineEngine and timeline_auditor.py
    date_tokens,        \* the date-like tokens the patterns match in a text, in
                        \* match order: month, day and year as written
    engine_dates,       \* what TimelineEngine.extract_dates returned
    auditor_dates,      \* the dates extract_timeline_data put in self.parsed_dates
    \* librarian.py detect_duplicates on a list of documents
    dup_documents,      \* the list of (filename, text, hash) it is called with
    dup_result          \* <<>>, or what it returned: unique_documents, duplicates

ingestVars == <<fs, extractor, documents, next_id, processed_hashes, extract_calls, last>>
textVars == <<raw_text, cleaned_once, cleaned_twice>>
mainVars == <<pc, unique_docs, counts, outcome, unique_total, extracted_from>>
storeVars == <<corpus_documents, entities, entity_connections, sqlite_sequence,
               add_entity_calls, store_calls>>
graphVars == <<rows, row, graph, entity_documents, bridge_nodes>>
timelineVars == <<doc_dates, threshold, silence_intervals, findings, gaps>>
bridgeVars == <<db_entities, db_cooccurrences, min_centrality, max_degree, connector_graph,
                bridges, bridge_findings>>
benfordVars == <<db_documents, min_sample_size, chi_square_threshold, violations,
                 benford_findings>>
detectorVars == <<detector_calls>>
batchVars == <<batch_pc, files, file_index, results, process_calls>>
hashVars == <<hash_docs, fingerprints>>
dateVars == <<date_tokens, engine_dates, auditor_dates>>
dupVars == <<dup_documents, dup_result>>
vars == <<ingestVars, mainVars, textVars, storeVars, graphVars, timelineVars, bridgeVars, benfordVars, detectorVars, batchVars, hashVars, dateVars, dupVars>>

\* What the extraction backend yields for a content: an exception or failure
\* ("error"), text that is only whitespace ("blank"), or usable text ("text").
ExtractKinds == {"error", "blank", "text"}

NoResult == [file |-> None, hash |-> None, had_row |-> FALSE, log |-> "", doc_id |-> None]

IngestIdle ==
    /\ fs = [f \in Files |-> 1]
    /\ extractor = [c \in Contents |-> "text"]
    /\ documents = {}
    /\ next_id = 1
    /\ processed_hashes = {}
    /\ extract_calls = {}
    /\ last = NoResult

Callers == {1, 2}

ZeroCounts == [processed |-> 0, skipped |-> 0, errors |-> 0]
NoOutcome == [counted |-> "", hash |-> None, raced |-> FALSE]

MainIdle ==
    /\ pc = [c \in Callers |-> "idle"]
    /\ unique_docs = [c \in Callers |-> <<>>]
    /\ counts = [c \in Callers |-> ZeroCounts]
    /\ outcome = [c \in Callers |-> NoOutcome]
    /\ unique_total = [c \in Callers |-> 0]
    /\ extracted_from = {}

TextIdle ==
    /\ raw_text = <<>>
    /\ cleaned_once = NoText
    /\ cleaned_twice = NoText

\* The entities of the model: names and types.
Names == {"Alice Adams", "Bob Brown"}
EntityTypes == {"PERSON", "ORGANIZATION"}
Tables == {"documents", "entities", "entity_connections"}

StoreIdle ==
    /\ corpus_documents = {}
    /\ entities = {}
    /\ entity_connections = {}
    /\ sqlite_sequence = [t \in Tables |-> 0]
    /\ add_entity_calls = [p \in Names \X EntityTypes |-> 0]
    /\ store_calls = 0

\* nx.Graph() of GraphAnalyst.__init__: no node; adj[<<u, v>>] is the weight of
\* the edge to v as read from u's adjacency (0: v is not in it).
GraphNames == Names \cup {"Carol Clark"}
EmptyGraph == [nodes |-> {}, adj |-> [e \in GraphNames \X GraphNames |-> 0]]

\* ConnectorEngine not in use: no row, self.graph = None, no call made
BridgeIdle ==
    /\ db_entities = <<>>
    /\ db_cooccurrences = {}
    /\ min_centrality = [num |-> 0, den |-> 1]
    /\ max_degree = 0
    /\ connector_graph = <<>>
    /\ bridges = <<>>
    /\ bridge_findings = <<>>

\* AnomalyEngine not in use: no document, no call made
BenfordIdle ==
    /\ db_documents = <<>>
    /\ min_sample_size = 0
    /\ chi_square_threshold = 0
    /\ violations = <<>>
    /\ benford_findings = <<>>

DetectorIdle == detector_calls = 0

DupIdle ==
    /\ dup_documents = <<>>
    /\ dup_result = <<>>

DateIdle ==
    /\ date_tokens = <<>>
    /\ engine_dates = <<>>
    /\ auditor_dates = <<>>

HashIdle ==
    /\ hash_docs = <<>>
    /\ fingerprints = <<>>

BatchIdle ==
    /\ batch_pc = "scan"
    /\ files = <<>>
    /\ file_index = 0
    /\ results = <<>>
    /\ process_calls = <<>>

GraphIdle ==
    /\ rows = <<>>
    /\ row = 1
    /\ graph = EmptyGraph
    /\ entity_documents = [n \in GraphNames |-> {}]
    /\ bridge_nodes = <<>>

\* A result not yet returned is <<>>, a returned list l is <<l>>.
NotRun == <<>>

TimelineIdle ==
    /\ doc_dates = <<<<>>, <<>>>>
    /\ threshold = 0
    /\ silence_intervals = NotRun
    /\ findings = <<>>
    /\ gaps = NotRun

\* ------------------------------------------------------------------ db.py
\* InvestigationDB.document_exists: SELECT id FROM documents WHERE hash = ?
document_exists(file_hash) == \E d \in documents : d.hash = file_hash

\* The table with UNIQUE on filename alone (the uniqueness of hash dropped).
IntegrityErrorFilenameOnly(filename, file_hash) ==
    \E d \in documents : d.filename = filename

\* The two UNIQUE columns of the documents table (filename, hash): the INSERT
\* raises sqlite3.IntegrityError when either value is already stored.
IntegrityError(filename, file_hash) ==
    \E d \in documents : d.filename = filename \/ d.hash = file_hash

\* InvestigationDB.insert_document: the new table, the returned id and the
\* message logged.
insert_document(filename, text, file_hash) ==
    IF IntegrityError(filename, file_hash)
    THEN [rows |-> documents, doc_id |-> None, next |-> next_id,
          log |-> "Document already exists"]
    ELSE [rows |-> documents \cup {[id |-> next_id, filename |-> filename,
                                    raw_text |-> text, hash |-> file_hash]},
          doc_id |-> next_id, next |-> next_id + 1,
          log |-> "Inserted document"]

\* ------------------------------------------------------------------ ingest.py
\* DocumentIngester.calculate_hash: None on IOError/OSError
calculate_hash(file_path, ioOk) == IF ioOk THEN sha256(fs[file_path]) ELSE None

\* No hash is ever found among the processed ones.
NeverDuplicate(file_hash) == FALSE

\* DocumentIngester.is_duplicate
is_duplicate(file_hash) == file_hash \in processed_hashes

\* extract_text_from_pdf / _image / _txt: None on any exception, else the text
extract_text(file_path) ==
    CASE extractor[fs[file_path]] = "error" -> NoText
      [] extractor[fs[file_path]] = "blank" -> Some(<<"ws", " ">>)
      [] OTHER -> Some(<<"a", "ws", " ", "a", "ws">>)

\* DocumentIngester.process_file: the returned (hash, cleaned_text), whether
\* the extractor was called, whether the hash was marked as processed, and the
\* message logged.
process_file(file_path, ioOk) ==
    LET file_hash == calculate_hash(file_path, ioOk) IN
    IF file_hash = None
    THEN [hash |-> None, text |-> NoText, extracted |-> FALSE, marked |-> FALSE,
          log |-> "Error calculating hash"]
    ELSE IF is_duplicate(file_hash)
    THEN [hash |-> file_hash, text |-> NoText, extracted |-> FALSE, marked |-> FALSE,
          log |-> "Skipping duplicate file"]
    ELSE LET text == extract_text(file_path) IN
         IF text = NoText
         THEN [hash |-> file_hash, text |-> NoText, extracted |-> TRUE, marked |-> FALSE,
               log |-> "Failed to extract text"]
         ELSE [hash |-> file_hash, text |-> Some(clean_text(text[1])), extracted |-> TRUE,
               marked |-> TRUE, log |-> "Successfully processed file"]

\* One file through the pipeline: process_file, and, for a file that came back
\* with a hash and a non-empty text (the filter of ingest_directory), the
\* insert_document of the result.
Ingest(file_path, ioOk) ==
    LET r == process_file(file_path, ioOk)
        stored == r.hash # None /\ Truthy(r.text)
        ins == insert_document(file_path, r.text[1], r.hash)
        known == r.hash \in processed_hashes \/ document_exists(r.hash)
    IN /\ processed_hashes' = IF r.marked THEN processed_hashes \cup {r.hash}
                              ELSE processed_hashes
       /\ extract_calls' = IF r.extracted
                           THEN extract_calls \cup {[file |-> file_path, hash |-> r.hash,
                                                     known |-> known]}
                           ELSE extract_calls
       /\ documents' = IF stored THEN ins.rows ELSE documents
       /\ next_id' = IF stored THEN ins.next ELSE next_id
       /\ last' = [file |-> file_path, hash |-> r.hash,
                   had_row |-> r.hash # None /\ document_exists(r.hash),
                   log |-> IF stored THEN ins.log ELSE r.log,
                   doc_id |-> IF stored THEN ins.doc_id ELSE None]
       /\ UNCHANGED <<fs, extractor>>

\* A later run against the same store: DocumentIngester.__init__ starts from an
\* empty processed_hashes. reset_duplicate_tracking (processed_hashes.clear())
\* does the same to the ingester there is.
NewIngester ==
    /\ processed_hashes # {}
    /\ processed_hashes' = {}
    /\ UNCHANGED <<fs, extractor, documents, next_id, extract_calls, last>>

Init ==
    /\ fs \in [Files -> Contents]
    /\ extractor \in [Contents -> ExtractKinds]
    /\ documents = {}
    /\ next_id = 1
    /\ processed_hashes = {}
    /\ extract_calls = {}
    /\ last = NoResult
    /\ MainIdle
    /\ TextIdle
    /\ StoreIdle
    /\ GraphIdle
    /\ TimelineIdle
    /\ BridgeIdle
    /\ BenfordIdle
    /\ DetectorIdle
    /\ BatchIdle
    /\ HashIdle
    /\ DateIdle
    /\ DupIdle

Next ==
    \/ \E f \in Files, ioOk \in BOOLEAN : Ingest(f, ioOk) /\ UNCHANGED <<mainVars, textVars, storeVars, graphVars, timelineVars, bridgeVars, benfordVars, detectorVars, batchVars, hashVars, dateVars, dupVars>>
    \/ NewIngester /\ UNCHANGED <<mainVars, textVars, storeVars, graphVars, timelineVars, bridgeVars, benfordVars, detectorVars, batchVars, hashVars, dateVars, dupVars>>

Spec == Init /\ [][Next]_vars

\* ------------------------------------------------------------------ librarian.py
\* compute_file_hash: "" on any exception
compute_file_hash(file_path, ioOk) == IF ioOk THEN sha256(fs[file_path]) ELSE None

\* A failed extraction handing back a text of its own instead of "".
extract_text_or_error_text(file_path) ==
    CASE extractor[fs[file_path]] = "error" -> <<"a">>
      [] extractor[fs[file_path]] = "blank" -> <<"ws", " ">>
      [] OTHER -> <<"a", "ws", " ", "a", "ws">>

\* extract_text_from_file: "" on failure, else the text as extracted
extract_text_from_file(file_path) ==
    CASE extractor[fs[file_path]] = "error" -> <<>>
      [] extractor[fs[file_path]] = "blank" -> <<"ws", " ">>
      [] OTHER -> <<"a", "ws", " ", "a", "ws">>

\* ingest_documents: the (filename, extracted_text, file_hash) of every file,
\* in scan order, whose hash was computed and whose extracted text is not empty.
\* io[f] tells whether reading f for its hash succeeds.
RECURSIVE ingest_documents(_, _)
ingest_documents(file_path, io) ==
    IF file_path > MaxFiles THEN <<>>
    ELSE LET file_hash == compute_file_hash(file_path, io[file_path])
             extracted_text == extract_text_from_file(file_path)
         IN IF file_hash # None /\ extracted_text # <<>>
            THEN <<[filename |-> file_path, text |-> extracted_text, hash |-> file_hash]>>
                     \o ingest_documents(file_path + 1, io)
            ELSE ingest_documents(file_path + 1, io)

\* The files ingest_documents hands to extract_text_from_file: every file whose
\* hash was computed.
ExtractedFiles(io) == {f \in Files : compute_file_hash(f, io[f]) # None}

\* detect_duplicates: (unique_documents, duplicates), walking the list with the
\* set seen_hashes
RECURSIVE detect_duplicates_from(_, _)
detect_duplicates_from(docs, seen_hashes) ==
    IF docs = <<>> THEN [unique |-> <<>>, duplicates |-> <<>>]
    ELSE LET d == Head(docs) IN
         IF d.hash \in seen_hashes
         THEN LET rest == detect_duplicates_from(Tail(docs), seen_hashes)
              IN [unique |-> rest.unique, duplicates |-> <<d.filename>> \o rest.duplicates]
         ELSE LET rest == detect_duplicates_from(Tail(docs), seen_hashes \cup {d.hash})
              IN [unique |-> <<d>> \o rest.unique, duplicates |-> rest.duplicates]

\* Every document kept, none reported.
keep_all_documents(docs) == [unique |-> docs, duplicates |-> <<>>]

detect_duplicates(docs) == detect_duplicates_from(docs, {})

\* The extractors of a batch: every content extracts to a text, but for at
\* most one content, which fails or extracts to white space.
BatchExtractors ==
    {[c \in Contents |-> IF c = bad THEN kind ELSE "text"] :
        bad \in Contents, kind \in ExtractKinds}

\* ------------------------------------------------------------------ main.py
\* process_documents up to its loop: ingest_documents, the early return on an
\* empty list, detect_duplicates, the three counters at 0.
StartRun(c, io) ==
    LET docs == ingest_documents(1, io)
        unique == detect_duplicates(docs).unique
    IN /\ pc[c] = "idle"
       /\ extract_calls' = extract_calls \cup
              {[file |-> f, hash |-> sha256(fs[f]),
                known |-> \/ document_exists(sha256(fs[f]))
                          \/ \E g \in ExtractedFiles(io) : g < f /\ fs[g] = fs[f]]
                 : f \in ExtractedFiles(io)}
       /\ unique_docs' = [unique_docs EXCEPT ![c] = unique]
       /\ counts' = [counts EXCEPT ![c] = ZeroCounts]
       /\ outcome' = [outcome EXCEPT ![c] = NoOutcome]
       /\ unique_total' = [unique_total EXCEPT ![c] = Len(unique)]
       /\ pc' = [pc EXCEPT ![c] = IF unique = <<>> THEN "done" ELSE "exists"]
       /\ UNCHANGED extracted_from
       /\ UNCHANGED <<fs, extractor, documents, next_id, processed_hashes, last>>

\* The loop moves on to the next unique document, or to the summary.
NextDoc(c) ==
    /\ unique_docs' = [unique_docs EXCEPT ![c] = Tail(unique_docs[c])]
    /\ pc' = [pc EXCEPT ![c] = IF Tail(unique_docs[c]) = <<>> THEN "done" ELSE "exists"]

\* How process_documents counts a document whose insert_document returned None.
CountFailedInsert(c) == [counts[c] EXCEPT !.errors = @ + 1]

\* The first statement of the loop body: db.document_exists(file_hash)
CheckExists(c) ==
    /\ pc[c] = "exists"
    /\ IF document_exists(Head(unique_docs[c]).hash)
       THEN /\ counts' = [counts EXCEPT ![c].skipped = @ + 1]
            /\ outcome' = [outcome EXCEPT ![c] =
                   [counted |-> "skipped", hash |-> Head(unique_docs[c]).hash, raced |-> FALSE]]
            /\ NextDoc(c)
       ELSE /\ pc' = [pc EXCEPT ![c] = "insert"]
            /\ UNCHANGED <<unique_docs, counts, outcome>>
    /\ UNCHANGED <<unique_total, extracted_from>>
    /\ UNCHANGED ingestVars

\* The rest of the loop body: db.insert_document, then the entity extraction
\* and relationship finding of the stored document. `raises` tells where an
\* exception is raised after the insert ("" for nowhere).
InsertDocument(c, raises) ==
    LET d == Head(unique_docs[c])
        ins == insert_document(d.filename, d.text, d.hash)
    IN /\ pc[c] = "insert"
       /\ documents' = ins.rows
       /\ next_id' = ins.next
       /\ IF ins.doc_id = None
          THEN /\ raises = ""
               /\ counts' = [counts EXCEPT ![c] = CountFailedInsert(c)]
               /\ outcome' = [outcome EXCEPT ![c] =
                      [counted |-> "error", hash |-> d.hash, raced |-> document_exists(d.hash)]]
          ELSE /\ counts' = [counts EXCEPT ![c] =
                      [processed |-> @.processed + (IF raises = "extract_entities" THEN 0 ELSE 1),
                       skipped |-> @.skipped,
                       errors |-> @.errors + (IF raises = "" THEN 0 ELSE 1)]]
               /\ outcome' = [outcome EXCEPT ![c] =
                      [counted |-> IF raises = "" THEN "processed" ELSE "error",
                       hash |-> d.hash, raced |-> FALSE]]
       /\ extracted_from' = IF ins.doc_id = None THEN extracted_from
                             ELSE extracted_from \cup {d.filename}
       /\ NextDoc(c)
       /\ UNCHANGED unique_total
       /\ UNCHANGED <<fs, extractor, processed_hashes, extract_calls, last>>

InitMain ==
    /\ fs \in [Files -> Contents]
    /\ extractor \in [Contents -> ExtractKinds]
    /\ documents = {}
    /\ next_id = 1
    /\ processed_hashes = {}
    /\ extract_calls = {}
    /\ last = NoResult
    /\ MainIdle
    /\ TextIdle
    /\ StoreIdle
    /\ GraphIdle
    /\ TimelineIdle
    /\ BridgeIdle
    /\ BenfordIdle
    /\ DetectorIdle
    /\ BatchIdle
    /\ HashIdle
    /\ DateIdle
    /\ DupIdle

NextMain ==
    \/ \E c \in Callers, io \in [Files -> BOOLEAN] : StartRun(c, io)
           /\ UNCHANGED <<textVars, storeVars, graphVars, timelineVars, bridgeVars, benfordVars, detectorVars, batchVars, hashVars, dateVars, dupVars>>
    \/ \E c \in Callers : CheckExists(c) /\ UNCHANGED <<textVars, storeVars, graphVars, timelineVars, bridgeVars, benfordVars, detectorVars, batchVars, hashVars, dateVars, dupVars>>
    \/ \E c \in Callers, raises \in {"", "extract_entities", "find_relationships"} :
           InsertDocument(c, raises)
               /\ UNCHANGED <<textVars, storeVars, graphVars, timelineVars, bridgeVars, benfordVars, detectorVars, batchVars, hashVars, dateVars, dupVars>>

SpecMain == InitMain /\ [][NextMain]_vars

\* The corpora in which at most one content fails to extract or extracts to
\* white space.
InitRun ==
    /\ fs \in [Files -> Contents]
    /\ extractor \in BatchExtractors
    /\ documents = {}
    /\ next_id = 1
    /\ processed_hashes = {}
    /\ extract_calls = {}
    /\ last = NoResult
    /\ MainIdle
    /\ TextIdle
    /\ StoreIdle
    /\ GraphIdle
    /\ TimelineIdle
    /\ BridgeIdle
    /\ BenfordIdle
    /\ DetectorIdle
    /\ BatchIdle
    /\ HashIdle
    /\ DateIdle
    /\ DupIdle

\* One run after the other: a caller starts when the callers before it are done.
NextRun ==
    \/ \E c \in Callers, io \in [Files -> BOOLEAN] :
           /\ \A earlier \in Callers : earlier < c => pc[earlier] = "done"
           /\ StartRun(c, io)
           /\ UNCHANGED <<textVars, storeVars, graphVars, timelineVars, bridgeVars, benfordVars, detectorVars, batchVars, hashVars, dateVars, dupVars>>
    \/ \E c \in Callers : CheckExists(c) /\ UNCHANGED <<textVars, storeVars, graphVars, timelineVars, bridgeVars, benfordVars, detectorVars, batchVars, hashVars, dateVars, dupVars>>
    \/ \E c \in Callers, raises \in {"", "extract_entities", "find_relationships"} :
           InsertDocument(c, raises)
               /\ UNCHANGED <<textVars, storeVars, graphVars, timelineVars, bridgeVars, benfordVars, detectorVars, batchVars, hashVars, dateVars, dupVars>>

SpecRun == InitRun /\ [][NextRun]_vars

\* ------------------------------------------------------------------ clean_text
CleanOnce ==
    /\ cleaned_once = NoText
    /\ cleaned_once' = Some(clean_text(raw_text))
    /\ UNCHANGED <<raw_text, cleaned_twice>>

CleanTwice ==
    /\ cleaned_once # NoText
    /\ cleaned_twice = NoText
    /\ cleaned_twice' = Some(clean_text(cleaned_once[1]))
    /\ UNCHANGED <<raw_text, cleaned_once>>

InitText ==
    /\ raw_text \in TextsUpTo(MaxLen)
    /\ cleaned_once = NoText
    /\ cleaned_twice = NoText
    /\ IngestIdle
    /\ MainIdle
    /\ StoreIdle
    /\ GraphIdle
    /\ TimelineIdle
    /\ BridgeIdle
    /\ BenfordIdle
    /\ DetectorIdle
    /\ BatchIdle
    /\ HashIdle
    /\ DateIdle
    /\ DupIdle

NextText ==
    \/ CleanOnce /\ UNCHANGED <<ingestVars, mainVars, storeVars, graphVars, timelineVars, bridgeVars, benfordVars, detectorVars, batchVars, hashVars, dateVars, dupVars>>
    \/ CleanTwice /\ UNCHANGED <<ingestVars, mainVars, storeVars, graphVars, timelineVars, bridgeVars, benfordVars, detectorVars, batchVars, hashVars, dateVars, dupVars>>

SpecText == InitText /\ [][NextText]_vars

\* ------------------------------------------------------------------ database.py
\* UNIQUE of the documents table of database.py: filename alone (content_hash
\* is a plain TEXT column).
DocumentIntegrityError(filename, content_hash) ==
    \E d \in corpus_documents : d.filename = filename

\* InvestigationDB.add_document: INSERT, lastrowid; None on IntegrityError
add_document(filename, content_hash) ==
    IF DocumentIntegrityError(filename, content_hash)
    THEN [rows |-> corpus_documents, id |-> None]
    ELSE [rows |-> corpus_documents \cup
                       {[id |-> sqlite_sequence["documents"] + 1, filename |-> filename,
                         content_hash |-> content_hash]},
          id |-> sqlite_sequence["documents"] + 1]

AddDocument(filename, content_hash) ==
    LET r == add_document(filename, content_hash)
    IN /\ store_calls < MaxCalls
       /\ store_calls' = store_calls + 1
       /\ corpus_documents' = r.rows
       /\ sqlite_sequence' = IF r.id = None THEN sqlite_sequence
                             ELSE [sqlite_sequence EXCEPT !["documents"] = r.id]
       /\ UNCHANGED <<entities, entity_connections, add_entity_calls>>

\* UNIQUE(name, entity_type) of the entities table
EntityIntegrityError(name, entity_type) ==
    \E e \in entities : e.name = name /\ e.entity_type = entity_type

\* The UPDATE that leaves the count as it is.
KeepOccurrenceCount(occurrence_count) == occurrence_count

\* SET occurrence_count = occurrence_count + 1
IncrementOccurrenceCount(occurrence_count) == occurrence_count + 1

\* An INSERT OR REPLACE in place of the UPDATE: the stored row takes the
\* first_seen_doc_id of the call.
insert_or_replace_entity(name, entity_type, first_seen_doc_id) ==
    IF EntityIntegrityError(name, entity_type)
    THEN [rows |-> {IF e.name = name /\ e.entity_type = entity_type
                    THEN [e EXCEPT !.occurrence_count = IncrementOccurrenceCount(@),
                                   !.first_seen_doc_id = first_seen_doc_id]
                    ELSE e : e \in entities},
          id |-> (CHOOSE e \in entities : e.name = name /\ e.entity_type = entity_type).id,
          inserted |-> FALSE]
    ELSE [rows |-> entities \cup
                       {[id |-> sqlite_sequence["entities"] + 1, name |-> name,
                         entity_type |-> entity_type,
                         first_seen_doc_id |-> first_seen_doc_id, occurrence_count |-> 1]},
          id |-> sqlite_sequence["entities"] + 1,
          inserted |-> TRUE]

\* InvestigationDB.add_entity: INSERT (occurrence_count DEFAULT 1), lastrowid;
\* on IntegrityError the UPDATE of the stored row and the SELECT of its id
add_entity(name, entity_type, first_seen_doc_id) ==
    IF EntityIntegrityError(name, entity_type)
    THEN [rows |-> {IF e.name = name /\ e.entity_type = entity_type
                    THEN [e EXCEPT !.occurrence_count = IncrementOccurrenceCount(@)]
                    ELSE e : e \in entities},
          id |-> (CHOOSE e \in entities : e.name = name /\ e.entity_type = entity_type).id,
          inserted |-> FALSE]
    ELSE [rows |-> entities \cup
                       {[id |-> sqlite_sequence["entities"] + 1, name |-> name,
                         entity_type |-> entity_type,
                         first_seen_doc_id |-> first_seen_doc_id, occurrence_count |-> 1]},
          id |-> sqlite_sequence["entities"] + 1,
          inserted |-> TRUE]

AddEntity(name, entity_type, first_seen_doc_id) ==
    LET r == add_entity(name, entity_type, first_seen_doc_id)
    IN /\ store_calls < MaxCalls
       /\ store_calls' = store_calls + 1
       /\ entities' = r.rows
       /\ sqlite_sequence' = IF r.inserted THEN [sqlite_sequence EXCEPT !["entities"] = r.id]
                             ELSE sqlite_sequence
       /\ add_entity_calls' = [add_entity_calls EXCEPT ![<<name, entity_type>>] = @ + 1]
       /\ UNCHANGED <<corpus_documents, entity_connections>>

\* UNIQUE(entity1_id, entity2_id, document_id) of the entity_connections table
ConnectionIntegrityError(entity1_id, entity2_id, document_id) ==
    \E c \in entity_connections :
        /\ c.entity1_id = entity1_id
        /\ c.entity2_id = entity2_id
        /\ c.document_id = document_id

\* InvestigationDB.add_entity_connection: INSERT of the three ids as given,
\* lastrowid; None on IntegrityError
add_entity_connection(entity1_id, entity2_id, document_id) ==
    IF ConnectionIntegrityError(entity1_id, entity2_id, document_id)
    THEN [rows |-> entity_connections, id |-> None]
    ELSE [rows |-> entity_connections \cup
                       {[id |-> sqlite_sequence["entity_connections"] + 1,
                         entity1_id |-> entity1_id, entity2_id |-> entity2_id,
                         document_id |-> document_id]},
          id |-> sqlite_sequence["entity_connections"] + 1]

AddEntityConnection(entity1_id, entity2_id, document_id) ==
    LET r == add_entity_connection(entity1_id, entity2_id, document_id)
    IN /\ store_calls < MaxCalls
       /\ store_calls' = store_calls + 1
       /\ entity_connections' = r.rows
       /\ sqlite_sequence' = IF r.id = None THEN sqlite_sequence
                             ELSE [sqlite_sequence EXCEPT !["entity_connections"] = r.id]
       /\ UNCHANGED <<corpus_documents, entities, add_entity_calls>>

DocumentIds == {d.id : d \in corpus_documents}
EntityIds == {e.id : e \in entities}

InitStore ==
    /\ StoreIdle
    /\ IngestIdle
    /\ MainIdle
    /\ TextIdle
    /\ GraphIdle
    /\ TimelineIdle
    /\ BridgeIdle
    /\ BenfordIdle
    /\ DetectorIdle
    /\ BatchIdle
    /\ HashIdle
    /\ DateIdle
    /\ DupIdle

\* The callers of the store pass the ids earlier calls returned.
NextStore ==
    \/ \E filename \in Files, content_hash \in Contents :
           AddDocument(filename, content_hash)
               /\ UNCHANGED <<ingestVars, mainVars, textVars, graphVars, timelineVars, bridgeVars, benfordVars, detectorVars, batchVars, hashVars, dateVars, dupVars>>
    \/ \E name \in Names, entity_type \in EntityTypes, doc_id \in DocumentIds :
           AddEntity(name, entity_type, doc_id)
               /\ UNCHANGED <<ingestVars, mainVars, textVars, graphVars, timelineVars, bridgeVars, benfordVars, detectorVars, batchVars, hashVars, dateVars, dupVars>>
    \/ \E e1 \in EntityIds, e2 \in EntityIds, doc_id \in DocumentIds :
           AddEntityConnection(e1, e2, doc_id)
               /\ UNCHANGED <<ingestVars, mainVars, textVars, graphVars, timelineVars, bridgeVars, benfordVars, detectorVars, batchVars, hashVars, dateVars, dupVars>>

SpecStore == InitStore /\ [][NextStore]_vars

\* ------------------------------------------------------------------ graph_analyst.py
\* The text of a document row, as the name pattern of extract_entities reads
\* it: whether re.findall returns no match of a name, one, or several.
MentionCounts == {0, 1, 2}
Texts == [GraphNames -> MentionCounts]

RECURSIVE SeqsUpTo(_, _)
SeqsUpTo(S, n) ==
    IF n = 0 THEN {<<>>}
    ELSE LET shorter == SeqsUpTo(S, n - 1)
         IN shorter \cup {Append(t, x) : t \in {q \in shorter : Len(q) = n - 1}, x \in S}

\* GraphAnalyst.extract_entities: the set of the matches (every name of the
\* model is longer than 5 characters and is none of the filtered words)
extract_entities(text) == {n \in GraphNames : text[n] > 0}

\* list(entities): a set has no order of its own, the list may come in any
Orders(S) == {l \in [1..Cardinality(S) -> S] : \A x \in S : \E i \in DOMAIN l : l[i] = x}

\* nx.Graph.has_edge
has_edge(g, u, v) == g.adj[<<u, v>>] > 0

\* nx.Graph.add_edge(entity1, entity2, weight=1, ...): one attribute dict,
\* reached from both ends of the edge
add_edge(g, u, v) ==
    [nodes |-> g.nodes \cup {u, v},
     adj |-> [e \in DOMAIN g.adj |-> IF e \in {<<u, v>>, <<v, u>>} THEN 1 ELSE g.adj[e]]]

\* The branch that sets the weight of an existing edge back to 1.
reset_weight(g, u, v) == add_edge(g, u, v)

\* self.graph[entity1][entity2]['weight'] += 1
increment_weight(g, u, v) ==
    [nodes |-> g.nodes,
     adj |-> [e \in DOMAIN g.adj |-> IF e \in {<<u, v>>, <<v, u>>} THEN g.adj[e] + 1
                                      ELSE g.adj[e]]]

\* The body of the two loops over entity_list
AddCooccurrence(g, entity1, entity2) ==
    IF has_edge(g, entity1, entity2)
    THEN increment_weight(g, entity1, entity2)
    ELSE add_edge(g, entity1, entity2)

\* The inner loop started at i itself.
InnerRangeFromI(i, n) == i..n

\* range(i + 1, len(entity_list)), as positions 1..n of the list
InnerRange(i, n) == (i + 1)..n

RECURSIVE InnerLoop(_, _, _, _)
InnerLoop(g, entity_list, i, js) ==
    IF js = {} THEN g
    ELSE LET j == CHOOSE x \in js : \A y \in js : x <= y
         IN InnerLoop(AddCooccurrence(g, entity_list[i], entity_list[j]),
                      entity_list, i, js \ {j})

RECURSIVE OuterLoop(_, _, _)
OuterLoop(g, entity_list, i) ==
    IF i > Len(entity_list) THEN g
    ELSE OuterLoop(InnerLoop(g, entity_list, i, InnerRange(i, Len(entity_list))),
                   entity_list, i + 1)

\* One iteration of the loop of build_graph over the rows: the entities of the
\* row become nodes, the row is noted for each, and every pair of the list is
\* given an edge or has its edge's weight raised.
ProcessRow(entity_list) ==
    LET found == extract_entities(rows[row])
    IN /\ entity_list \in Orders(found)
       /\ graph' = OuterLoop([graph EXCEPT !.nodes = @ \cup found], entity_list, 1)
       /\ entity_documents' = [n \in GraphNames |->
              IF n \in found THEN entity_documents[n] \cup {row} ELSE entity_documents[n]]
       /\ row' = row + 1
       /\ UNCHANGED <<rows, bridge_nodes>>

\* A centrality is a rational [num, den]; a > b for rationals
Greater(a, b) == a.num * b.den > b.num * a.den
SameRational(a, b) == a.num * b.den = b.num * a.den

RECURSIVE SumFn(_, _)
SumFn(f, S) ==
    IF S = {} THEN 0
    ELSE LET x == CHOOSE y \in S : TRUE IN f[x] + SumFn(f, S \ {x})

\* Shares of paths are counted in units of 1 / Scale.
Scale == 360

\* nx.betweenness_centrality(self.graph, weight='weight'): the weight of an
\* edge is its length, and the paths counted are the shortest by total length.
Unreachable == -1

Weight(g, u, v) == g.adj[<<u, v>>]

\* The length an edge has for the shortest paths: its 'weight' attribute.
EdgeLength(g, u, v) == Weight(g, u, v)

\* Length of the shortest walk from s to v of at most k edges.
RECURSIVE DistWithin(_, _, _, _)
DistWithin(g, s, v, k) ==
    IF v = s THEN 0
    ELSE IF k = 0 THEN Unreachable
    ELSE LET via == {DistWithin(g, s, u, k - 1) + EdgeLength(g, u, v) :
                        u \in {x \in g.nodes \ {v} :
                                  /\ has_edge(g, x, v)
                                  /\ DistWithin(g, s, x, k - 1) # Unreachable}}
         IN IF via = {} THEN Unreachable
            ELSE CHOOSE d \in via : \A e \in via : d <= e

distance(g, s, v) == DistWithin(g, s, v, Cardinality(g.nodes) - 1)

\* Number of shortest paths from s to v.
RECURSIVE PathCount(_, _, _)
PathCount(g, s, v) ==
    IF v = s THEN 1
    ELSE IF distance(g, s, v) = Unreachable THEN 0
    ELSE LET before == {u \in g.nodes \ {v} :
                           /\ has_edge(g, u, v)
                           /\ distance(g, s, u) # Unreachable
                           /\ distance(g, s, u) + EdgeLength(g, u, v) = distance(g, s, v)}
         IN SumFn([u \in before |-> PathCount(g, s, u)], before)

\* The share of the shortest paths between s and t that pass through v, in
\* 1/Scale.
PairDependency(g, s, t, v) ==
    IF /\ distance(g, s, t) # Unreachable
       /\ distance(g, s, v) # Unreachable
       /\ distance(g, v, t) # Unreachable
       /\ distance(g, s, v) + distance(g, v, t) = distance(g, s, t)
    THEN (Scale * PathCount(g, s, v) * PathCount(g, v, t)) \div PathCount(g, s, t)
    ELSE 0

\* nx.betweenness_centrality of node v, normalized (the default).
weighted_betweenness_centrality(g, v) ==
    LET n == Cardinality(g.nodes)
        others == g.nodes \ {v}
        pairs == {p \in SUBSET others : Cardinality(p) = 2}
        ends(p) == LET s == CHOOSE x \in p : TRUE IN <<s, CHOOSE y \in p : y # s>>
        total == SumFn([p \in pairs |-> PairDependency(g, ends(p)[1], ends(p)[2], v)], pairs)
    IN IF n > 2 THEN [num |-> 2 * total, den |-> Scale * (n - 1) * (n - 2)]
       ELSE [num |-> total, den |-> Scale]

\* GraphAnalyst.calculate_bridge_nodes: the score of every node. The list
\* returned holds the nodes by descending score (sorted is stable: nodes of
\* equal score stay in the order the graph holds them).
calculate_bridge_nodes(g) ==
    [v \in g.nodes |-> weighted_betweenness_centrality(g, v)]

CalculateBridgeNodes ==
    /\ row > Len(rows)
    /\ bridge_nodes = NotRun
    /\ bridge_nodes' = <<calculate_bridge_nodes(graph)>>
    /\ UNCHANGED <<rows, row, graph, entity_documents>>

InitGraph ==
    /\ rows \in SeqsUpTo(Texts, MaxDocs)
    /\ row = 1
    /\ graph = EmptyGraph
    /\ entity_documents = [n \in GraphNames |-> {}]
    /\ bridge_nodes = NotRun
    /\ IngestIdle
    /\ MainIdle
    /\ TextIdle
    /\ StoreIdle
    /\ TimelineIdle
    /\ BridgeIdle
    /\ BenfordIdle
    /\ DetectorIdle
    /\ BatchIdle
    /\ HashIdle
    /\ DateIdle
    /\ DupIdle

NextGraph ==
    \/ \E entity_list \in SeqsUpTo(GraphNames, Cardinality(GraphNames)) :
           /\ row <= Len(rows)
           /\ ProcessRow(entity_list)
           /\ UNCHANGED <<ingestVars, mainVars, textVars, storeVars, timelineVars, bridgeVars, benfordVars, detectorVars, batchVars, hashVars, dateVars, dupVars>>
    \/ CalculateBridgeNodes /\ UNCHANGED <<ingestVars, mainVars, textVars, storeVars, timelineVars, bridgeVars, benfordVars, detectorVars, batchVars, hashVars, dateVars, dupVars>>

SpecGraph == InitGraph /\ [][NextGraph]_vars

\* ------------------------------------------------------------------ timelines
\* A date (a datetime at midnight) is named by its day number, so that
\* (date2 - date1).days is date2 - date1; strftime('%Y-%m-%d') names a date
\* one-to-one and is left out.  doc_dates[d] holds the dates the patterns match
\* in the text of document d, in the order they are matched.
Days == 1..MaxDay
TimelineDocs == {1, 2}

\* The text of a document mentions no date, one date, or two (in either order,
\* or the same date twice).
DateLists == {<<>>} \cup {<<a>> : a \in Days} \cup {<<a, b>> : a \in Days, b \in Days}

Range(l) == {l[i] : i \in DOMAIN l}

\* sorted(set(...)) of dates
RECURSIVE SortedSet(_)
SortedSet(S) ==
    IF S = {} THEN <<>>
    ELSE LET m == CHOOSE x \in S : \A y \in S : x <= y
         IN <<m>> \o SortedSet(S \ {m})

\* sorted(..., key=date): stable, an item goes after the items whose date is
\* not later than its own
RECURSIVE InsertByDate(_, _)
InsertByDate(l, x) ==
    IF l = <<>> THEN <<x>>
    ELSE IF Head(l).date <= x.date THEN <<Head(l)>> \o InsertByDate(Tail(l), x)
    ELSE <<x>> \o l

RECURSIVE SortByDate(_)
SortByDate(l) ==
    IF l = <<>> THEN <<>>
    ELSE InsertByDate(SortByDate(SubSeq(l, 1, Len(l) - 1)), l[Len(l)])

\* list.sort(key=gap_days, reverse=True): stable, the larger gap first
RECURSIVE InsertByGapDescending(_, _)
InsertByGapDescending(l, x) ==
    IF l = <<>> THEN <<x>>
    ELSE IF Head(l).gap_days >= x.gap_days
         THEN <<Head(l)>> \o InsertByGapDescending(Tail(l), x)
         ELSE <<x>> \o l

RECURSIVE SortByGapDescending(_)
SortByGapDescending(l) ==
    IF l = <<>> THEN <<>>
    ELSE InsertByGapDescending(SortByGapDescending(SubSeq(l, 1, Len(l) - 1)), l[Len(l)])

\* TimelineEngine.extract_dates: sorted(set(dates))
extract_dates(dates) == SortedSet(Range(dates))

\* TimelineEngine.extract_all_dates_from_documents: (document_id, date) of every
\* date of every document, sorted by date
RECURSIVE AllDatesFrom(_)
AllDatesFrom(d) ==
    IF d > Len(doc_dates) THEN <<>>
    ELSE LET dates == extract_dates(doc_dates[d])
         IN [i \in 1..Len(dates) |-> [doc |-> d, date |-> dates[i]]] \o AllDatesFrom(d + 1)

extract_all_dates_from_documents == SortByDate(AllDatesFrom(1))

\* The test with the threshold included.
AtLeastMinGap(gap_days, min_gap_days) == gap_days >= min_gap_days

\* if gap_days > min_gap_days
ExceedsMinGap(gap_days, min_gap_days) == gap_days > min_gap_days

\* db.add_finding: the finding is appended to the findings of the store
add_finding(stored, finding_type, severity, metadata) ==
    Append(stored, [finding_type |-> finding_type, severity |-> severity,
                    metadata |-> metadata])

RECURSIVE AddFindings(_, _)
AddFindings(stored, intervals) ==
    IF intervals = <<>> THEN stored
    ELSE AddFindings(add_finding(stored, "silence_interval", "medium", Head(intervals)),
                     Tail(intervals))

\* TimelineEngine.find_silence_intervals: the list returned and the findings
\* stored
find_silence_intervals(min_gap_days) ==
    LET all_dates == extract_all_dates_from_documents
        unique_dates == SortedSet({x.date : x \in Range(all_dates)})
        consecutive == [i \in 1..(Len(unique_dates) - 1) |->
                           [start_date |-> unique_dates[i], end_date |-> unique_dates[i + 1],
                            gap_days |-> unique_dates[i + 1] - unique_dates[i]]]
        found == SelectSeq(consecutive, LAMBDA p : ExceedsMinGap(p.gap_days, min_gap_days))
    IN IF Len(all_dates) < 2
       THEN [returned |-> <<>>, findings |-> findings]
       ELSE [returned |-> SortByGapDescending(found),
             findings |-> AddFindings(findings, found)]

FindSilenceIntervals ==
    LET r == find_silence_intervals(threshold)
    IN /\ silence_intervals = NotRun
       /\ silence_intervals' = <<r.returned>>
       /\ findings' = r.findings
       /\ UNCHANGED <<doc_dates, threshold, gaps>>

\* TimelineAuditor.extract_timeline_data: self.parsed_dates, one entry per date
\* matched, row after row
RECURSIVE ParsedDatesFrom(_)
ParsedDatesFrom(d) ==
    IF d > Len(doc_dates) THEN <<>>
    ELSE [i \in 1..Len(doc_dates[d]) |-> [doc |-> d, date |-> doc_dates[d][i]]]
             \o ParsedDatesFrom(d + 1)

parsed_dates == ParsedDatesFrom(1)

\* if gap > gap_days
ExceedsGapDays(gap, gap_days) == gap > gap_days

\* TimelineAuditor.identify_silence_intervals: the gaps, each with the
\* documents before and after it
identify_silence_intervals(gap_days) ==
    LET sorted_dates == SortByDate(parsed_dates)
        consecutive == [i \in 1..(Len(sorted_dates) - 1) |->
                           [start_date |-> sorted_dates[i].date,
                            end_date |-> sorted_dates[i + 1].date,
                            gap_days |-> sorted_dates[i + 1].date - sorted_dates[i].date,
                            before |-> sorted_dates[i].doc, after |-> sorted_dates[i + 1].doc]]
    IN IF parsed_dates = <<>> THEN <<>>
       ELSE SelectSeq(consecutive, LAMBDA g : ExceedsGapDays(g.gap_days, gap_days))

IdentifySilenceIntervals ==
    /\ gaps = NotRun
    /\ gaps' = <<identify_silence_intervals(threshold)>>
    /\ UNCHANGED <<doc_dates, threshold, silence_intervals, findings>>

InitTimeline ==
    /\ doc_dates \in [TimelineDocs -> DateLists]
    /\ threshold \in 0..MaxDay
    /\ silence_intervals = NotRun
    /\ findings = <<>>
    /\ gaps = NotRun
    /\ IngestIdle
    /\ MainIdle
    /\ TextIdle
    /\ StoreIdle
    /\ GraphIdle
    /\ BridgeIdle
    /\ BenfordIdle
    /\ DetectorIdle
    /\ BatchIdle
    /\ HashIdle
    /\ DateIdle
    /\ DupIdle

NextTimeline ==
    \/ FindSilenceIntervals
           /\ UNCHANGED <<ingestVars, mainVars, textVars, storeVars, graphVars, bridgeVars, benfordVars, detectorVars, batchVars, hashVars, dateVars, dupVars>>
    \/ IdentifySilenceIntervals
           /\ UNCHANGED <<ingestVars, mainVars, textVars, storeVars, graphVars, bridgeVars, benfordVars, detectorVars, batchVars, hashVars, dateVars, dupVars>>

SpecTimeline == InitTimeline /\ [][NextTimeline]_vars

\* ---------------------------------------------------------------------------
\* analytics.py ConnectorEngine: the co-occurrence graph, its metrics and the
\* bridge entities.  A centrality and min_centrality are rationals num/den
\* with den > 0.

MaxEntities == 4
DefaultMaxDegree == 5
DefaultMinCentrality == [num |-> 1, den |-> 10]

\* names in alphabetical order
EntityNames == <<"Ann", "Bea", "Cal", "Dee", "Eve", "Fay">>
MinCentralities == {[num |-> 0, den |-> 1], DefaultMinCentrality, [num |-> 1, den |-> 1]}
MaxDegrees == {3, DefaultMaxDegree}

EntityPairs(n) == {p \in (1..n) \X (1..n) : p[1] < p[2]}

\* ConnectorEngine.build_graph: a node per entity in the order of the rows,
\* an edge per co-occurring pair (every id of a pair is an entity's id, so
\* add_edge adds no node; the weight plays no part in the metrics)
build_graph ==
    [nodes |-> [i \in 1..Len(db_entities) |-> db_entities[i].id],
     edges |-> {{c[1], c[2]} : c \in db_cooccurrences}]

Neighbors(g, v) == {w \in Range(g.nodes) : w # v /\ {v, w} \in g.edges}

\* graph.degree()
degree(g, v) == Cardinality(Neighbors(g, v))

\* The breadth-first search from a source: the nodes at distance 0, 1, 2, ...
RECURSIVE Levels(_, _, _)
Levels(g, seen, frontier) ==
    IF frontier = {} THEN <<>>
    ELSE <<frontier>> \o
         Levels(g, seen \cup frontier,
                (UNION {Neighbors(g, v) : v \in frontier}) \ (seen \cup frontier))

\* sigma: the number of shortest paths from the source to w, at distance k - 1
RECURSIVE Sigma(_, _, _, _)
Sigma(g, levels, k, w) ==
    IF k = 1 THEN 1
    ELSE LET preds == levels[k - 1] \cap Neighbors(g, w)
         IN SumFn([v \in preds |-> Sigma(g, levels, k - 1, v)], preds)

\* delta, in units of 1 / Scale: the dependency of the source on v, accumulated
\* back from the farthest nodes

RECURSIVE Delta(_, _, _, _)
Delta(g, levels, k, v) ==
    IF k = Len(levels) THEN 0
    ELSE LET succs == levels[k + 1] \cap Neighbors(g, v)
         IN SumFn([w \in succs |->
                      (Sigma(g, levels, k, v) * (Scale + Delta(g, levels, k + 1, w)))
                          \div Sigma(g, levels, k + 1, w)],
                  succs)

\* No source depends on any node.
NoDependency(g, s, v) == 0

\* the dependency of source s on v (0 when v is s or out of reach)
Dependency(g, s, v) ==
    LET levels == Levels(g, {}, {s})
    IN IF v = s \/ ~\E k \in DOMAIN levels : v \in levels[k] THEN 0
       ELSE Delta(g, levels, CHOOSE k \in DOMAIN levels : v \in levels[k], v)

\* nx.betweenness_centrality(graph): the dependencies of all sources on v,
\* normalized by 1 / ((n - 1)(n - 2)) when the graph has more than two nodes
betweenness_centrality(g, v) ==
    LET n == Len(g.nodes)
        nodes == Range(g.nodes)
    IN [num |-> SumFn([s \in nodes |-> Dependency(g, s, v)], nodes),
        den |-> IF n <= 2 THEN Scale ELSE Scale * (n - 1) * (n - 2)]

\* ConnectorEngine.calculate_metrics: node by node, in the order of the graph
calculate_metrics(g) ==
    [i \in 1..Len(g.nodes) |->
        [node_id |-> g.nodes[i],
         betweenness_centrality |-> betweenness_centrality(g, g.nodes[i]),
         degree |-> degree(g, g.nodes[i])]]

\* The test with the minimum included.
AtLeastMinCentrality(centrality, minimum) == ~Greater(minimum, centrality)

\* centrality > min_centrality
ExceedsMinCentrality(centrality, minimum) == Greater(centrality, minimum)

\* degree < max_degree
BelowMaxDegree(d, maximum) == d < maximum

\* bridges.sort(key=betweenness_centrality, reverse=True): stable, an item goes
\* after the items whose centrality is not smaller than its own
RECURSIVE InsertByCentralityDescending(_, _)
InsertByCentralityDescending(l, x) ==
    IF l = <<>> THEN <<x>>
    ELSE IF ~Greater(x.betweenness_centrality, Head(l).betweenness_centrality)
         THEN <<Head(l)>> \o InsertByCentralityDescending(Tail(l), x)
         ELSE <<x>> \o l

RECURSIVE SortByCentralityDescending(_)
SortByCentralityDescending(l) ==
    IF l = <<>> THEN <<>>
    ELSE InsertByCentralityDescending(SortByCentralityDescending(SubSeq(l, 1, Len(l) - 1)),
                                      l[Len(l)])

\* ConnectorEngine.find_bridges, the list returned: the nodes past both
\* thresholds that have a row, with the name of the row, sorted
find_bridges(g, minimum, maximum) ==
    LET metrics == calculate_metrics(g)
        selected == SelectSeq(metrics,
                       LAMBDA m : /\ ExceedsMinCentrality(m.betweenness_centrality, minimum)
                                  /\ BelowMaxDegree(m.degree, maximum)
                                  /\ \E i \in DOMAIN db_entities : db_entities[i].id = m.node_id)
        found == [i \in DOMAIN selected |->
                     LET entity == Head(SelectSeq(db_entities,
                                           LAMBDA e : e.id = selected[i].node_id))
                     IN [entity_id |-> selected[i].node_id,
                         name |-> entity.name,
                         entity_type |-> entity.entity_type,
                         betweenness_centrality |-> selected[i].betweenness_centrality,
                         degree |-> selected[i].degree]]
    IN SortByCentralityDescending(found)

\* The findings of the bridges alone, the stored ones gone.
ForgetStoredFindings(stored, found) ==
    [i \in DOMAIN found |->
        [finding_type |-> "bridge_entity", severity |-> "high",
         metadata |-> [entity_id |-> found[i].entity_id,
                       betweenness_centrality |-> found[i].betweenness_centrality,
                       degree |-> found[i].degree]]]

\* the add_finding loop of find_bridges: a finding per bridge, in list order
RECURSIVE AddBridgeFindings(_, _)
AddBridgeFindings(stored, found) ==
    IF found = <<>> THEN stored
    ELSE AddBridgeFindings(
             add_finding(stored, "bridge_entity", "high",
                         [entity_id |-> Head(found).entity_id,
                          betweenness_centrality |-> Head(found).betweenness_centrality,
                          degree |-> Head(found).degree]),
             Tail(found))

BuildGraph ==
    /\ connector_graph = <<>>
    /\ connector_graph' = <<build_graph>>
    /\ UNCHANGED <<db_entities, db_cooccurrences, min_centrality, max_degree, bridges,
                   bridge_findings>>

\* find_bridges(min_centrality, max_degree): builds the graph when there is none
FindBridges ==
    LET g == IF connector_graph = <<>> THEN build_graph ELSE connector_graph[1]
        found == find_bridges(g, min_centrality, max_degree)
    IN /\ bridges = NotRun
       /\ connector_graph' = <<g>>
       /\ bridges' = <<found>>
       /\ bridge_findings' = AddBridgeFindings(bridge_findings, found)
       /\ UNCHANGED <<db_entities, db_cooccurrences, min_centrality, max_degree>>

\* Entities have the ids 1, 2, ... of their insertion; which entity got which
\* name is free.
InitBridges ==
    /\ \E n \in 0..MaxEntities, reversed \in BOOLEAN :
           db_entities = [i \in 1..n |->
                             [id |-> i,
                              name |-> EntityNames[IF reversed THEN n + 1 - i ELSE i],
                              entity_type |-> "PERSON"]]
    /\ db_cooccurrences \in SUBSET EntityPairs(Len(db_entities))
    /\ min_centrality \in MinCentralities
    /\ max_degree \in MaxDegrees
    /\ connector_graph = <<>>
    /\ bridges = NotRun
    /\ bridge_findings = <<>>
    /\ IngestIdle
    /\ MainIdle
    /\ TextIdle
    /\ StoreIdle
    /\ GraphIdle
    /\ TimelineIdle
    /\ BenfordIdle
    /\ DetectorIdle
    /\ BatchIdle
    /\ HashIdle
    /\ DateIdle
    /\ DupIdle

NextBridges ==
    \/ BuildGraph
           /\ UNCHANGED <<ingestVars, mainVars, textVars, storeVars, graphVars, timelineVars, benfordVars, detectorVars, batchVars, hashVars, dateVars, dupVars>>
    \/ FindBridges
           /\ UNCHANGED <<ingestVars, mainVars, textVars, storeVars, graphVars, timelineVars, benfordVars, detectorVars, batchVars, hashVars, dateVars, dupVars>>

SpecBridges == InitBridges /\ [][NextBridges]_vars

\* ---------------------------------------------------------------------------
\* analytics.py AnomalyEngine: Benford's law.  An amount is a number of
\* cents; the content of a document is the bag of the amounts its text holds
\* (amount -> number of occurrences); a chi-square is in thousandths.

DefaultMinSampleSize == 30
DefaultChiSquareThreshold == 15507

\* BENFORDS_DISTRIBUTION, digit -> expected frequency in thousandths
BENFORDS_DISTRIBUTION == <<301, 176, 125, 97, 79, 67, 58, 51, 46>>
Digits == 1..9

\* The amount float() makes of a number past the largest float: inf.
Infinity == 2000000000

\* 0.00, 0.15, 150.00, 250.00, ..., 950.00, inf
AmountValues == {0, 15} \cup {d * 10000 + 5000 : d \in Digits} \cup {Infinity}

EmptyBag == [a \in AmountValues |-> 0]
Run(a, n) == [v \in AmountValues |-> IF v = a THEN n ELSE 0]
BagSum(b, c) == [v \in AmountValues |-> b[v] + c[v]]
BagSize(b) == SumFn(b, AmountValues)

\* 30 amounts whose leading digits follow the expected distribution closely
BenfordSample ==
    [v \in AmountValues |->
        IF v < 10000 \/ v = Infinity THEN 0 ELSE <<9, 5, 4, 3, 2, 2, 2, 2, 1>>[v \div 10000]]

RunAmounts == {0, 15, 15000, 95000}
RunLengths == {1, DefaultMinSampleSize - 1, DefaultMinSampleSize}
Runs == {Run(a, n) : a \in RunAmounts, n \in RunLengths}

\* the contents of a document: none, no amount, one or two runs of one amount
\* each, the Benford-like sample, an infinite amount alone or among others
Samples ==
    {NoText, Some(EmptyBag), Some(BenfordSample), Some(Run(Infinity, 1)),
     Some(BagSum(Run(15000, DefaultMinSampleSize - 1), Run(Infinity, 1)))}
        \cup {Some(r) : r \in Runs}
        \cup {Some(BagSum(Run(a, n), Run(b, m))) :
                 a \in RunAmounts, b \in RunAmounts \ {15000}, n \in RunLengths, m \in {1}}

\* AnomalyEngine.extract_currency_amounts: the amounts > 0
extract_currency_amounts(text) == [v \in AmountValues |-> IF v > 0 THEN text[v] ELSE 0]

\* str(n)[0] of an integer n >= 0
RECURSIVE LeadingDigit(_)
LeadingDigit(n) == IF n < 10 THEN n ELSE LeadingDigit(n \div 10)

\* str(int(abs(num)))[0]
FirstDigit(num) == LeadingDigit(num \div 100)

\* int(abs(num)) of an infinite amount raises OverflowError, which
\* get_first_digit_distribution does not catch
RaisesOverflowError(numbers) == numbers[Infinity] > 0

\* The frequencies taken over all the numbers, those of leading digit 0 too.
LenNumbers(counter, numbers) == BagSize(numbers)

\* total = len(first_digits): the numbers whose leading digit is not '0'
LenFirstDigits(counter, numbers) == SumFn(counter, Digits)

\* AnomalyEngine.get_first_digit_distribution when it does not raise: <<>> for
\* {}, else the count of every digit 1..9 and the total they are divided by
get_first_digit_distribution(numbers) ==
    LET finite == AmountValues \ {Infinity}
        counter == [d \in Digits |->
                       SumFn([v \in {a \in finite : FirstDigit(a) = d} |-> numbers[v]],
                             {a \in finite : FirstDigit(a) = d})]
        first_digits == SumFn(counter, Digits)
        total == LenFirstDigits(counter, numbers)
    IN IF BagSize(numbers) = 0 \/ first_digits = 0 THEN <<>>
       ELSE <<[counter |-> counter, total |-> total]>>

Abs(x) == IF x < 0 THEN -x ELSE x

\* ((obs_freq - exp_freq) ** 2) / exp_freq in thousandths, rounded down, with
\* obs_freq = count / total * sample_size, exp_freq = expected / 1000 * sample_size
ChiSquareTerm(count, total, expected, sample_size) ==
    LET x == Abs(1000 * count - expected * total)
        squared == x * (x \div expected) + (x * (x % expected)) \div expected
    IN ((squared \div total) * sample_size) \div total

\* AnomalyEngine.chi_square_test
chi_square_test(observed, expected, sample_size) ==
    SumFn([d \in Digits |->
              IF expected[d] * sample_size > 0
              THEN ChiSquareTerm(observed.counter[d], observed.total, expected[d], sample_size)
              ELSE 0],
          Digits)

MinSampleSizes == {1, DefaultMinSampleSize}
ChiSquareThresholds == {DefaultChiSquareThreshold}
BenfordDocs == {1, 2}

\* No sample is too small.
NeverTooFew(n, minimum) == FALSE

\* if len(amounts) < min_sample_size: continue
TooFew(n, minimum) == n < minimum

\* The body of the loop of detect_benfords_law_violation raises on the document.
benford_raises(doc, minimum) ==
    /\ Truthy(doc.content)
    /\ ~TooFew(BagSize(extract_currency_amounts(doc.content[1])), minimum)
    /\ RaisesOverflowError(extract_currency_amounts(doc.content[1]))

\* The body of the loop of detect_benfords_law_violation for one document on
\* which it does not raise: <<>> when the document is passed over or does not
\* violate, else the violation appended
benford_violation(doc, minimum, limit) ==
    IF ~Truthy(doc.content) THEN <<>>
    ELSE LET amounts == extract_currency_amounts(doc.content[1])
             n == BagSize(amounts)
             observed_dist == get_first_digit_distribution(amounts)
             chi_square == chi_square_test(observed_dist[1], BENFORDS_DISTRIBUTION, n)
         IN IF TooFew(n, minimum) THEN <<>>
            ELSE IF observed_dist = <<>> THEN <<>>
            ELSE IF chi_square > limit
                 THEN <<[document_id |-> doc.id, sample_size |-> n, chi_square |-> chi_square]>>
                 ELSE <<>>

\* violations.sort(key=chi_square, reverse=True): stable
RECURSIVE InsertByChiSquareDescending(_, _)
InsertByChiSquareDescending(l, x) ==
    IF l = <<>> THEN <<x>>
    ELSE IF Head(l).chi_square >= x.chi_square
         THEN <<Head(l)>> \o InsertByChiSquareDescending(Tail(l), x)
         ELSE <<x>> \o l

RECURSIVE SortByChiSquareDescending(_)
SortByChiSquareDescending(l) ==
    IF l = <<>> THEN <<>>
    ELSE InsertByChiSquareDescending(SortByChiSquareDescending(SubSeq(l, 1, Len(l) - 1)),
                                     l[Len(l)])

\* the loop over the documents from document d on: the violations appended and
\* the findings stored, document after document, up to the document on which
\* the body raises (nothing in the loop catches the exception)
RECURSIVE BenfordLoop(_, _, _, _, _)
BenfordLoop(d, minimum, limit, found, stored) ==
    IF d > Len(db_documents)
    THEN [violations |-> found, findings |-> stored, raised |-> FALSE]
    ELSE IF benford_raises(db_documents[d], minimum)
    THEN [violations |-> found, findings |-> stored, raised |-> TRUE]
    ELSE LET v == benford_violation(db_documents[d], minimum, limit)
         IN BenfordLoop(d + 1, minimum, limit, found \o v,
                        IF v = <<>> THEN stored
                        ELSE add_finding(stored, "benfords_violation", "high", v[1]))

\* AnomalyEngine.detect_benfords_law_violation: the list returned, or that it
\* raised, and the findings stored
detect_benfords_law_violation(minimum, limit) ==
    LET r == BenfordLoop(1, minimum, limit, <<>>, benford_findings)
    IN [returned |-> IF r.raised THEN <<>> ELSE SortByChiSquareDescending(r.violations),
        raised |-> r.raised,
        findings |-> r.findings]

\* what the caller has of a call: the list returned, or its own empty list and
\* the exception (run_all_analyses keeps [] when the call raises)
Returned(list) == <<list>>
Raised == <<<<>>, "OverflowError">>

DetectBenfordsLawViolation ==
    LET r == detect_benfords_law_violation(min_sample_size, chi_square_threshold)
    IN /\ violations = NotRun
       /\ violations' = IF r.raised THEN Raised ELSE Returned(r.returned)
       /\ benford_findings' = r.findings
       /\ UNCHANGED <<db_documents, min_sample_size, chi_square_threshold>>

InitBenford ==
    /\ \E content \in [BenfordDocs -> Samples] :
           db_documents = [d \in BenfordDocs |-> [id |-> d, content |-> content[d]]]
    /\ min_sample_size \in MinSampleSizes
    /\ chi_square_threshold \in ChiSquareThresholds
    /\ violations = NotRun
    /\ benford_findings = <<>>
    /\ IngestIdle
    /\ MainIdle
    /\ TextIdle
    /\ StoreIdle
    /\ GraphIdle
    /\ TimelineIdle
    /\ BridgeIdle
    /\ DetectorIdle
    /\ BatchIdle
    /\ HashIdle
    /\ DateIdle
    /\ DupIdle

NextBenford ==
    DetectBenfordsLawViolation
        /\ UNCHANGED <<ingestVars, mainVars, textVars, storeVars, graphVars, timelineVars,
                       bridgeVars, detectorVars, batchVars, hashVars, dateVars, dupVars>>

SpecBenford == InitBenford /\ [][NextBenford]_vars

\* ---------------------------------------------------------------------------
\* The three detectors of analytics.py called any number of times, in any
\* order and with any parameters, on one corpus.

MaxDetectorCalls == 3

\* the path 1 - 2 - 3
PathCooccurrences == {<<1, 2>>, <<2, 3>>}
DetectorSamples ==
    {NoText, Some(Run(15000, DefaultMinSampleSize)), Some(Run(95000, 1)),
     Some(Run(Infinity, 1))}
DetectorDateLists == {<<>>, <<1, 3>>}

CallFindBridges(minimum, maximum) ==
    LET g == IF connector_graph = <<>> THEN build_graph ELSE connector_graph[1]
        found == find_bridges(g, minimum, maximum)
    IN /\ detector_calls < MaxDetectorCalls
       /\ detector_calls' = detector_calls + 1
       /\ min_centrality' = minimum
       /\ max_degree' = maximum
       /\ connector_graph' = <<g>>
       /\ bridges' = <<found>>
       /\ bridge_findings' = AddBridgeFindings(bridge_findings, found)
       /\ UNCHANGED <<db_entities, db_cooccurrences>>
       /\ UNCHANGED <<benfordVars, timelineVars, batchVars, hashVars, dateVars, dupVars>>

CallDetectBenfordsLawViolation(minimum, limit) ==
    LET r == detect_benfords_law_violation(minimum, limit)
    IN /\ detector_calls < MaxDetectorCalls
       /\ detector_calls' = detector_calls + 1
       /\ min_sample_size' = minimum
       /\ chi_square_threshold' = limit
       /\ violations' = IF r.raised THEN Raised ELSE Returned(r.returned)
       /\ benford_findings' = r.findings
       /\ UNCHANGED db_documents
       /\ UNCHANGED <<bridgeVars, timelineVars, batchVars, hashVars, dateVars, dupVars>>

CallFindSilenceIntervals(min_gap_days) ==
    LET r == find_silence_intervals(min_gap_days)
    IN /\ detector_calls < MaxDetectorCalls
       /\ detector_calls' = detector_calls + 1
       /\ threshold' = min_gap_days
       /\ silence_intervals' = <<r.returned>>
       /\ findings' = r.findings
       /\ UNCHANGED <<doc_dates, gaps>>
       /\ UNCHANGED <<bridgeVars, benfordVars, batchVars, hashVars, dateVars, dupVars>>

InitDetectors ==
    /\ db_entities = [i \in 1..3 |-> [id |-> i, name |-> EntityNames[i],
                                       entity_type |-> "PERSON", occurrence_count |-> i]]
    /\ db_cooccurrences \in {{}, PathCooccurrences}
    /\ min_centrality = DefaultMinCentrality
    /\ max_degree = DefaultMaxDegree
    /\ connector_graph = <<>>
    /\ bridges = NotRun
    /\ bridge_findings = <<>>
    /\ \E content \in [BenfordDocs -> DetectorSamples] :
           db_documents = [d \in BenfordDocs |-> [id |-> d, content |-> content[d]]]
    /\ min_sample_size = DefaultMinSampleSize
    /\ chi_square_threshold = DefaultChiSquareThreshold
    /\ violations = NotRun
    /\ benford_findings = <<>>
    /\ doc_dates \in [TimelineDocs -> DetectorDateLists]
    /\ threshold = 0
    /\ silence_intervals = NotRun
    /\ findings = <<>>
    /\ gaps = NotRun
    /\ detector_calls = 0
    /\ IngestIdle
    /\ MainIdle
    /\ TextIdle
    /\ StoreIdle
    /\ GraphIdle
    /\ BatchIdle
    /\ HashIdle
    /\ DateIdle
    /\ DupIdle

NextDetectors ==
    \/ \E minimum \in {DefaultMinCentrality, [num |-> 1, den |-> 1]} :
           CallFindBridges(minimum, DefaultMaxDegree)
               /\ UNCHANGED <<ingestVars, mainVars, textVars, storeVars, graphVars, batchVars, hashVars, dateVars, dupVars>>
    \/ \E minimum \in MinSampleSizes :
           CallDetectBenfordsLawViolation(minimum, DefaultChiSquareThreshold)
               /\ UNCHANGED <<ingestVars, mainVars, textVars, storeVars, graphVars, batchVars, hashVars, dateVars, dupVars>>
    \/ \E min_gap_days \in {0, 1} :
           CallFindSilenceIntervals(min_gap_days)
               /\ UNCHANGED <<ingestVars, mainVars, textVars, storeVars, graphVars, batchVars, hashVars, dateVars, dupVars>>

SpecDetectors == InitDetectors /\ [][NextDetectors]_vars

\* ---------------------------------------------------------------------------
\* ingest.py: DocumentIngester.ingest_directory

\* What can go wrong inside one process_file call besides what the file's
\* content decides: nothing, calculate_hash failing, or an exception raised
\* in the body.
Faults == {"none", "hash", "exception"}

\* scan_directory: the supported files found, in the order glob yields them.
\* The files are numbered in that order; the files beyond the list are the
\* ones scan_directory leaves out.
ScannedLists == {[k \in 1..n |-> k] : n \in 0..MaxFiles}

\* process_file with its except clause: an exception in the body is logged
\* and (None, None) is returned.
process_file_guarded(file_path, fault) ==
    IF fault = "exception"
    THEN [hash |-> None, text |-> NoText, extracted |-> FALSE, marked |-> FALSE,
          log |-> "Error processing file"]
    ELSE process_file(file_path, fault # "hash")

StopAtFailure(index, total, failed) == IF failed THEN total ELSE index + 1

\* for i, file_path in enumerate(files, 1): the file after this one, whether
\* this one made it into results or not (the inner except ends in continue).
NextFile(index, total, failed) == index + 1

ScanDirectory ==
    /\ batch_pc = "scan"
    /\ \E found \in ScannedLists : files' = found
    /\ batch_pc' = "loop"
    /\ UNCHANGED <<file_index, results, process_calls>>
    /\ UNCHANGED ingestVars

\* One turn of the loop of ingest_directory.
ProcessNextFile(fault) ==
    /\ batch_pc = "loop"
    /\ file_index < Len(files)
    /\ LET file_path == files[file_index + 1]
           r == process_file_guarded(file_path, fault)
           kept == r.hash # None /\ Truthy(r.text)
       IN /\ processed_hashes' = IF r.marked THEN processed_hashes \cup {r.hash}
                                 ELSE processed_hashes
          /\ results' = IF kept
                        THEN Append(results, <<file_path, r.hash, r.text[1]>>)
                        ELSE results
          /\ process_calls' = Append(process_calls,
                                     [file_path |-> file_path, fault |-> fault])
          /\ file_index' = NextFile(file_index, Len(files), ~kept)
    /\ UNCHANGED <<batch_pc, files>>
    /\ UNCHANGED <<fs, extractor, documents, next_id, extract_calls, last>>

\* return results
ReturnResults ==
    /\ batch_pc = "loop"
    /\ file_index >= Len(files)
    /\ batch_pc' = "returned"
    /\ UNCHANGED <<files, file_index, results, process_calls>>
    /\ UNCHANGED ingestVars

InitBatch ==
    /\ fs \in [Files -> Contents]
    /\ extractor \in BatchExtractors
    /\ documents = {}
    /\ next_id = 1
    /\ processed_hashes = {}
    /\ extract_calls = {}
    /\ last = NoResult
    /\ BatchIdle
    /\ MainIdle
    /\ TextIdle
    /\ StoreIdle
    /\ GraphIdle
    /\ TimelineIdle
    /\ BridgeIdle
    /\ BenfordIdle
    /\ DetectorIdle
    /\ HashIdle
    /\ DateIdle
    /\ DupIdle

NextBatch ==
    \/ ScanDirectory /\ UNCHANGED <<mainVars, textVars, storeVars, graphVars, timelineVars, bridgeVars, benfordVars, detectorVars, hashVars, dateVars, dupVars>>
    \/ \E fault \in Faults : ProcessNextFile(fault) /\ UNCHANGED <<mainVars, textVars, storeVars, graphVars, timelineVars, bridgeVars, benfordVars, detectorVars, hashVars, dateVars, dupVars>>
    \/ ReturnResults /\ UNCHANGED <<mainVars, textVars, storeVars, graphVars, timelineVars, bridgeVars, benfordVars, detectorVars, hashVars, dateVars, dupVars>>

\* The loop is a for loop over a finite list and no step of it waits for
\* anything: the call keeps running until it returns.
SpecBatch == InitBatch /\ [][NextBatch]_vars /\ WF_vars(NextBatch)

\* ---------------------------------------------------------------------------
\* The fingerprints: ingest.py calculate_hash, librarian.py compute_file_hash,
\* analytics/database.py compute_document_hash

\* f.read(4096)
BlockSize == 4096

\* text[:1000]
HashPrefix == 1000

Fill(c, n) == [i \in 1..n |-> c]

\* Filenames and contents, as sequences of bytes (the contents are ASCII: a
\* character is a byte). The contents differ in their first byte, or in a byte
\* past the first thousand, or in a byte of their second block.
HashFilenames == {<<"a">>, <<"b">>}
HashContents ==
    {<<>>, <<"x">>, <<"y">>,
     <<"y">> \o Fill("x", HashPrefix),
     Fill("x", HashPrefix) \o <<"x">>, Fill("x", HashPrefix) \o <<"y">>,
     Fill("x", BlockSize) \o <<"x">>, Fill("x", BlockSize) \o <<"y">>}

\* for byte_block in iter(lambda: f.read(4096), b""): sha256_hash.update(byte_block)
\* -- the bytes the hash object has been fed when the loop ends.
RECURSIVE ReadBlocks(_, _)
ReadBlocks(rest, hashed) ==
    IF rest = <<>> THEN hashed
    ELSE LET n == IF Len(rest) < BlockSize THEN Len(rest) ELSE BlockSize
         IN ReadBlocks(SubSeq(rest, n + 1, Len(rest)), hashed \o SubSeq(rest, 1, n))

\* DocumentIngester.calculate_hash of a readable file with these bytes
calculate_hash_of(bytes) == sha256(ReadBlocks(bytes, <<>>))

\* librarian.compute_file_hash of a readable file with these bytes
compute_file_hash_of(bytes) == sha256(ReadBlocks(bytes, <<>>))

\* analytics/database.py compute_document_hash
compute_document_hash(filename, text) ==
    LET prefix == SubSeq(text, 1, IF Len(text) < HashPrefix THEN Len(text) ELSE HashPrefix)
        content == filename \o <<":">> \o prefix
    IN sha256(content)

\* The three functions on both documents.
ComputeFingerprints ==
    /\ fingerprints = <<>>
    /\ fingerprints' =
           [i \in 1..2 |->
               [calculate_hash |-> calculate_hash_of(hash_docs[i].content),
                compute_file_hash |-> compute_file_hash_of(hash_docs[i].content),
                compute_document_hash |->
                    compute_document_hash(hash_docs[i].filename, hash_docs[i].content)]]
    /\ UNCHANGED hash_docs

InitHash ==
    /\ hash_docs \in [1..2 -> [filename : HashFilenames, content : HashContents]]
    /\ fingerprints = <<>>
    /\ IngestIdle
    /\ MainIdle
    /\ TextIdle
    /\ StoreIdle
    /\ GraphIdle
    /\ TimelineIdle
    /\ BridgeIdle
    /\ BenfordIdle
    /\ DetectorIdle
    /\ BatchIdle
    /\ DateIdle
    /\ DupIdle

NextHash ==
    ComputeFingerprints
        /\ UNCHANGED <<ingestVars, mainVars, textVars, storeVars, graphVars, timelineVars,
                       bridgeVars, benfordVars, detectorVars, batchVars, dateVars, dupVars>>

SpecHash == InitHash /\ [][NextHash]_vars

\* ---------------------------------------------------------------------------
\* Date parsing: analytics.py TimelineEngine.extract_dates and
\* timeline_auditor.py TimelineAuditor.parse_date / extract_timeline_data

\* datetime.MINYEAR, datetime.MAXYEAR
MINYEAR == 1
MAXYEAR == 9999

\* if 1900 <= year <= 2050
FirstYear == 1900
LastYear == 2050

\* The tokens of the texts: MM/DD/YYYY tokens, which the first pattern of both
\* modules matches, as <<month, day, year>>.
DateTokens ==
    {<<2, 29, 2000>>, <<2, 29, 1900>>, <<2, 30, 2000>>, <<4, 31, 2000>>,
     <<13, 1, 2000>>, <<0, 10, 2000>>, <<1, 0, 2000>>, <<1, 1, 0>>,
     <<12, 31, 1899>>, <<1, 1, 1900>>, <<12, 31, 2050>>, <<1, 1, 2051>>}

TokenLists == {<<>>} \cup {<<a>> : a \in DateTokens}
                  \cup {<<a, b>> : a \in DateTokens, b \in DateTokens}

IsLeap(year) == year % 4 = 0 /\ (year % 100 # 0 \/ year % 400 = 0)

DaysInMonth(year, month) ==
    IF month = 2 THEN (IF IsLeap(year) THEN 29 ELSE 28)
    ELSE IF month \in {4, 6, 9, 11} THEN 30 ELSE 31

\* datetime(year, month, day): <<>> when it raises ValueError, else the date,
\* named by the number yyyymmdd (the order of dates is the order of the numbers)
datetime(year, month, day) ==
    IF /\ year >= MINYEAR /\ year <= MAXYEAR
       /\ month >= 1 /\ month <= 12
       /\ day >= 1 /\ day <= DaysInMonth(year, month)
    THEN <<year * 10000 + month * 100 + day>>
    ELSE <<>>

YearOf(date) == date \div 10000

\* The loop of TimelineEngine.extract_dates over the matches of a pattern:
\* the dates list it builds.
RECURSIVE EngineDatesFrom(_)
EngineDatesFrom(tokens) ==
    IF tokens = <<>> THEN <<>>
    ELSE LET month == Head(tokens)[1]
             day == Head(tokens)[2]
             year == Head(tokens)[3]
             date_obj == datetime(year, month, day)
         IN IF date_obj # <<>> /\ FirstYear <= year /\ year <= LastYear
            THEN date_obj \o EngineDatesFrom(Tail(tokens))
            ELSE EngineDatesFrom(Tail(tokens))

\* TimelineEngine.extract_dates of a text with these tokens
engine_extract_dates(tokens) == SortedSet(Range(EngineDatesFrom(tokens)))

\* datetime.strptime(date_str, '%m/%d/%Y') of a token: <<>> for ValueError
strptime(token) == datetime(token[3], token[1], token[2])

\* TimelineAuditor.parse_date: None (<<>>) if parsing fails
parse_date(token) == strptime(token)

\* The loop of extract_timeline_data over the dates of a row: what it
\* appends to self.parsed_dates.
RECURSIVE extract_timeline_data(_)
extract_timeline_data(tokens) ==
    IF tokens = <<>> THEN <<>>
    ELSE LET parsed == parse_date(Head(tokens))
         IN IF parsed # <<>>
            THEN parsed \o extract_timeline_data(Tail(tokens))
            ELSE extract_timeline_data(Tail(tokens))

ExtractDates ==
    /\ engine_dates = NotRun
    /\ engine_dates' = <<engine_extract_dates(date_tokens)>>
    /\ UNCHANGED <<date_tokens, auditor_dates>>

ExtractTimelineData ==
    /\ auditor_dates = NotRun
    /\ auditor_dates' = <<extract_timeline_data(date_tokens)>>
    /\ UNCHANGED <<date_tokens, engine_dates>>

InitDates ==
    /\ date_tokens \in TokenLists
    /\ engine_dates = NotRun
    /\ auditor_dates = NotRun
    /\ IngestIdle
    /\ MainIdle
    /\ TextIdle
    /\ StoreIdle
    /\ GraphIdle
    /\ TimelineIdle
    /\ BridgeIdle
    /\ BenfordIdle
    /\ DetectorIdle
    /\ BatchIdle
    /\ HashIdle
    /\ DupIdle

NextDates ==
    \/ ExtractDates
           /\ UNCHANGED <<ingestVars, mainVars, textVars, storeVars, graphVars, timelineVars,
                          bridgeVars, benfordVars, detectorVars, batchVars, hashVars, dupVars>>
    \/ ExtractTimelineData
           /\ UNCHANGED <<ingestVars, mainVars, textVars, storeVars, graphVars, timelineVars,
                          bridgeVars, benfordVars, detectorVars, batchVars, hashVars, dupVars>>

SpecDates == InitDates /\ [][NextDates]_vars

\* ---------------------------------------------------------------------------
\* librarian.py detect_duplicates on any list of documents

\* The longest list of documents.
MaxInput == 3

\* The documents of a list: (filename, text, hash); the text plays no part.
DupDocuments == [filename : Files, text : {<<"a">>}, hash : {sha256(c) : c \in Contents}]

DetectDuplicates ==
    /\ dup_result = NotRun
    /\ dup_result' = <<detect_duplicates(dup_documents)>>
    /\ UNCHANGED dup_documents

InitDup ==
    /\ dup_documents \in SeqsUpTo(DupDocuments, MaxInput)
    /\ dup_result = NotRun
    /\ IngestIdle
    /\ MainIdle
    /\ TextIdle
    /\ StoreIdle
    /\ GraphIdle
    /\ TimelineIdle
    /\ BridgeIdle
    /\ BenfordIdle
    /\ DetectorIdle
    /\ BatchIdle
    /\ HashIdle
    /\ DateIdle

NextDup ==
    DetectDuplicates
        /\ UNCHANGED <<ingestVars, mainVars, textVars, storeVars, graphVars, timelineVars,
                       bridgeVars, benfordVars, detectorVars, batchVars, hashVars, dateVars>>

SpecDup == InitDup /\ [][NextDup]_vars

\* ================================================================== claims
RowsWithHash(h) == {d \in documents : d.hash = h}

\* C1: when a file is ingested (process_file, then insert_document) and a
\* Document row with its fingerprint is already stored, by this ingester or by
\* an earlier run against the same store, the store still holds exactly one row
\* with that fingerprint, no new id is returned, and what the ingestion reports
\* is the duplicate outcome ("Skipping duplicate file" of process_file or
\* "Document already exists" of insert_document), not a failure.
C1_SecondIngestIsDuplicate ==
    (last.hash # None /\ last.had_row) =>
        /\ Cardinality(RowsWithHash(last.hash)) = 1
        /\ last.doc_id = None
        /\ last.log \in {"Skipping duplicate file", "Document already exists"}

\* C1 witness: a second run (a new ingester) has ingested, under another file
\* name, a content the store already held, and the insert reported the duplicate.
C1_Witness ==
    /\ last.had_row
    /\ last.log = "Document already exists"
    /\ \E d \in documents : d.hash = last.hash /\ d.filename # last.file

\* C3: no file is passed to the text extractor when its fingerprint is already
\* known, from an earlier file of the same run or from a Document in the store.
C3_DuplicateCheckPrecedesExtraction ==
    \A call \in extract_calls : ~call.known

\* C4: a caller whose insert meets a row that another caller stored after this
\* caller's document_exists check leaves exactly one row with that fingerprint
\* and has the document counted as a duplicate (skipped), not as a failure.
C4_RaceLoserIsDuplicate ==
    \A c \in Callers :
        outcome[c].raced =>
            /\ Cardinality(RowsWithHash(outcome[c].hash)) = 1
            /\ outcome[c].counted = "skipped"

\* C5: clean_text applied to its own result returns that result.
C5_CleanTextIdempotent ==
    cleaned_twice # NoText => cleaned_twice = cleaned_once

\* C2: the store holds at most one Document per content fingerprint, in the
\* documents table of database.py (add_document) and in that of db.py
\* (insert_document).
C2_OneDocumentPerFingerprint ==
    /\ \A h \in Contents : Cardinality({d \in corpus_documents : d.content_hash = h}) <= 1
    /\ \A h \in Contents : Cardinality(RowsWithHash(h)) <= 1

EntityRows(p) == {e \in entities : e.name = p[1] /\ e.entity_type = p[2]}

\* C6: a (name, type) pair add_entity was never called for has no row; a pair
\* it was called for has exactly one row, whose occurrence_count is the number
\* of add_entity calls made for the pair; and no step lowers the count of a row.
C6_OneEntityRowCountingCalls ==
    /\ [](\A p \in Names \X EntityTypes :
            IF add_entity_calls[p] = 0
            THEN EntityRows(p) = {}
            ELSE /\ Cardinality(EntityRows(p)) = 1
                 /\ \A e \in EntityRows(p) : e.occurrence_count = add_entity_calls[p])
    /\ [][\A e \in entities : \E f \in entities' :
              /\ f.id = e.id /\ f.name = e.name /\ f.entity_type = e.entity_type
              /\ f.occurrence_count >= e.occurrence_count]_vars

\* C6 witness: add_entity has been called three times for one pair and once
\* for another.
C6_Witness ==
    \E p, q \in Names \X EntityTypes :
        /\ p # q
        /\ add_entity_calls[p] = 3
        /\ add_entity_calls[q] = 1
        /\ \E e \in EntityRows(p) : e.occurrence_count = 3

\* C7: an unordered pair of entities is recorded at most once per document, and
\* in canonical order (the smaller id first).
C7_CanonicalPairOncePerDocument ==
    /\ \A c \in entity_connections : c.entity1_id <= c.entity2_id
    /\ \A c1, c2 \in entity_connections :
           (/\ c1.document_id = c2.document_id
            /\ {c1.entity1_id, c1.entity2_id} = {c2.entity1_id, c2.entity2_id}) => c1 = c2

RowsMentioningBoth(u, v) ==
    {d \in 1..(row - 1) : rows[d][u] > 0 /\ rows[d][v] > 0}

\* C9: once build_graph has gone through the rows before `row`, the weight of
\* the edge between two distinct entities is the number of those rows that
\* mention both (0: no edge), however often a row mentions either.
C9_WeightCountsDocuments ==
    \A u, v \in GraphNames :
        u # v => graph.adj[<<u, v>>] = Cardinality(RowsMentioningBoth(u, v))

\* C9 witness: the build is over, two rows mention both u and v, one of them
\* mentions u more than once, and the weight of the edge is 2.
C9_Witness ==
    /\ row > Len(rows)
    /\ \E u, v \in GraphNames :
           /\ u # v
           /\ Cardinality(RowsMentioningBoth(u, v)) = 2
           /\ \E d \in RowsMentioningBoth(u, v) : rows[d][u] > 1
           /\ graph.adj[<<u, v>>] = 2

CorpusDates == UNION {Range(doc_dates[d]) : d \in TimelineDocs}

ConsecutiveDates(a, b) ==
    /\ a \in CorpusDates /\ b \in CorpusDates
    /\ a < b
    /\ ~\E c \in CorpusDates : a < c /\ c < b

\* The pairs of consecutive distinct dates of the corpus more than the
\* threshold apart.
ExpectedIntervals ==
    {[start_date |-> a, end_date |-> b, gap_days |-> b - a] :
        <<a, b>> \in {p \in Days \X Days : ConsecutiveDates(p[1], p[2])
                                            /\ p[2] - p[1] > threshold}}

Interval(g) == [start_date |-> g.start_date, end_date |-> g.end_date, gap_days |-> g.gap_days]

C11_DescendingGapOrder ==
    /\ silence_intervals # NotRun =>
           \A i \in 1..(Len(silence_intervals[1]) - 1) :
               silence_intervals[1][i].gap_days >= silence_intervals[1][i + 1].gap_days
    /\ gaps # NotRun =>
           \A i \in 1..(Len(gaps[1]) - 1) :
               gaps[1][i].gap_days >= gaps[1][i + 1].gap_days

\* Betweenness centrality by its definition: over the pairs of other nodes
\* joined by a path, the fraction of the pair's shortest paths that pass
\* through v, summed and divided by the number of pairs of other nodes (the
\* fraction is written over Scale (n - 1)(n - 2), a pair counting in both
\* directions).
RECURSIVE SimplePathsFrom(_, _)
SimplePathsFrom(g, p) ==
    {p} \cup UNION {SimplePathsFrom(g, Append(p, w)) :
                       w \in {x \in Range(g.nodes) : /\ {p[Len(p)], x} \in g.edges
                                                     /\ x \notin Range(p)}}

\* the shortest of the simple paths between every two distinct nodes
ShortestPaths(g) ==
    UNION {LET from_s == SimplePathsFrom(g, <<s>>)
           IN {p \in from_s : /\ Len(p) > 1
                              /\ \A q \in from_s : q[Len(q)] = p[Len(p)] => Len(p) <= Len(q)} :
           s \in Range(g.nodes)}

PathFraction(shortest, n, v) ==
    LET through == {p \in shortest : v \in Range(p) /\ p[1] # v /\ p[Len(p)] # v}
    IN [num |-> SumFn([p \in through |->
                          Scale \div Cardinality({q \in shortest : /\ q[1] = p[1]
                                                                   /\ q[Len(q)] = p[Len(p)]})],
                      through),
        den |-> IF n <= 2 THEN Scale ELSE Scale * (n - 1) * (n - 2)]

\* The entities of the graph past both thresholds, with their metrics.
QualifyingEntities ==
    LET g == build_graph
        shortest == ShortestPaths(g)
        metrics == {[entity_id |-> v,
                     betweenness_centrality |-> PathFraction(shortest, Len(g.nodes), v),
                     degree |-> Cardinality({w \in Range(g.nodes) : {v, w} \in g.edges})] :
                       v \in Range(g.nodes)}
    IN {m \in metrics : /\ Greater(m.betweenness_centrality, min_centrality)
                        /\ m.degree < max_degree}

BridgeMetrics(b) ==
    [entity_id |-> b.entity_id, betweenness_centrality |-> b.betweenness_centrality,
     degree |-> b.degree]

\* C12: find_bridges returns, once each, exactly the entities whose betweenness
\* centrality is strictly greater than min_centrality and whose degree is
\* strictly less than max_degree, with those metrics; for a graph without
\* nodes or without edges it returns the empty list.
C12_BridgesAreTheQualifyingEntities ==
    bridges # NotRun =>
        /\ {BridgeMetrics(b) : b \in Range(bridges[1])} = QualifyingEntities
        /\ Len(bridges[1]) = Cardinality(QualifyingEntities)
        /\ (db_entities = <<>> \/ db_cooccurrences = {}) => bridges[1] = <<>>

\* C12 witness: find_bridges has run on a graph with edges and has left out an
\* entity whose centrality is above min_centrality because its degree equals
\* max_degree, and an entity whose degree is below max_degree because its
\* centrality equals min_centrality.
C12_Witness ==
    /\ bridges # NotRun
    /\ \E m \in Range(calculate_metrics(build_graph)) :
           /\ Greater(m.betweenness_centrality, min_centrality)
           /\ m.degree = max_degree
    /\ \E m \in Range(calculate_metrics(build_graph)) :
           /\ SameRational(m.betweenness_centrality, min_centrality)
           /\ m.degree < max_degree

NameRank(name) == CHOOSE i \in DOMAIN EntityNames : EntityNames[i] = name

\* b comes before c in the order by descending centrality, then descending
\* degree, then name
BridgeOrder(b, c) ==
    \/ Greater(b.betweenness_centrality, c.betweenness_centrality)
    \/ /\ SameRational(b.betweenness_centrality, c.betweenness_centrality)
       /\ \/ b.degree > c.degree
          \/ b.degree = c.degree /\ NameRank(b.name) < NameRank(c.name)

\* C13: the bridge list is ordered by descending centrality, ties broken by
\* descending degree and then by entity name, whatever the order in which the
\* entities were stored.
C13_TiesByDegreeThenName ==
    bridges # NotRun =>
        \A i \in 1..(Len(bridges[1]) - 1) : BridgeOrder(bridges[1][i], bridges[1][i + 1])

\* The centres of the star the co-occurrences form: at least two leaves, each
\* co-occurring with the centre and no two leaves co-occurring.
StarCentres ==
    {c \in 1..Len(db_entities) :
        /\ Len(db_entities) >= 3
        /\ db_cooccurrences = {p \in EntityPairs(Len(db_entities)) : c \in {p[1], p[2]}}}

MetricsOf(v) ==
    LET metrics == calculate_metrics(connector_graph[1])
    IN metrics[CHOOSE i \in DOMAIN metrics : metrics[i].node_id = v]

NumbersYielded(d) ==
    IF db_documents[d].content = NoText THEN 0
    ELSE SumFn([v \in AmountValues \ {0} |-> db_documents[d].content[1][v]],
               AmountValues \ {0})

ReportedViolations(d) == {v \in Range(violations[1]) : v.document_id = d}
StoredBenfordFindings(d) ==
    {i \in DOMAIN benford_findings : benford_findings[i].metadata.document_id = d}

\* C15: a document that yields fewer than min_sample_size numbers is not in
\* the violations detect_benfords_law_violation returns and gets no finding,
\* whatever its leading digits.
C15_SmallSampleNeverReported ==
    violations # NotRun =>
        \A d \in DOMAIN db_documents :
            NumbersYielded(d) < min_sample_size =>
                ReportedViolations(d) = {} /\ StoredBenfordFindings(d) = {}

\* C15 witness: the detector has run with its default minimum on a document
\* holding 29 amounts, all of leading digit 1, and on a document holding 30
\* such amounts; only the second is reported.
C15_Witness ==
    /\ violations # NotRun
    /\ min_sample_size = DefaultMinSampleSize
    /\ db_documents[1].content = Some(Run(15000, DefaultMinSampleSize - 1))
    /\ db_documents[2].content = Some(Run(15000, DefaultMinSampleSize))
    /\ ReportedViolations(1) = {}
    /\ StoredBenfordFindings(1) = {}
    /\ ReportedViolations(2) # {}

\* The first (leftmost) non-zero digit of a positive amount.
FirstSignificantDigit(num) == LeadingDigit(num)

\* the numbers document d yields all have one same leading digit
ShareOneLeadingDigit(d) ==
    /\ db_documents[d].content # NoText
    /\ \E digit \in Digits :
           \A v \in AmountValues \ {0} :
               db_documents[d].content[1][v] > 0 => FirstSignificantDigit(v) = digit

\* C16: with the default minimum and threshold, a document whose sample holds
\* n >= min_sample_size numbers that all share one leading digit is reported
\* as a violation, with a chi-square strictly above 15.507 and the sample
\* size n.
C16_SingleDigitSampleFlagged ==
    (/\ violations # NotRun
     /\ min_sample_size = DefaultMinSampleSize
     /\ chi_square_threshold = DefaultChiSquareThreshold) =>
        \A d \in DOMAIN db_documents :
            (NumbersYielded(d) >= min_sample_size /\ ShareOneLeadingDigit(d)) =>
                \E v \in ReportedViolations(d) :
                    /\ v.chi_square > DefaultChiSquareThreshold
                    /\ v.sample_size = NumbersYielded(d)

\* document d was passed over for holding fewer than min_sample_size numbers
SkippedAsInsufficient(d) == NumbersYielded(d) < min_sample_size

\* document d went through the chi-square test and did not exceed the threshold
TestedNotViolating(d) ==
    /\ Truthy(db_documents[d].content)
    /\ NumbersYielded(d) >= min_sample_size
    /\ get_first_digit_distribution(extract_currency_amounts(db_documents[d].content[1]))
           # <<>>
    /\ ReportedViolations(d) = {}

\* what the result of the detector holds about document d
ResultAbout(d) ==
    [reported |-> {[sample_size |-> v.sample_size, chi_square |-> v.chi_square] :
                      v \in ReportedViolations(d)},
     findings |-> Cardinality(StoredBenfordFindings(d))]

\* C17: the result of the Benford detector represents a document passed over
\* for too few numbers differently from a document tested and found not to
\* violate.
C17_InsufficiencyDistinctFromNonViolation ==
    violations # NotRun =>
        \A d1, d2 \in DOMAIN db_documents :
            (SkippedAsInsufficient(d1) /\ TestedNotViolating(d2)) =>
                ResultAbout(d1) # ResultAbout(d2)

\* document d, analysed on its own, is a violation
ViolatesOnItsOwn(d) ==
    /\ ~benford_raises(db_documents[d], min_sample_size)
    /\ benford_violation(db_documents[d], min_sample_size, chi_square_threshold) # <<>>

\* C20: a document on which a detector fails does not abort the analysis of
\* the others: every other document that violates is still reported by the
\* Benford detector and has its finding.
C20_BadDocumentDoesNotAbortAnalysis ==
    violations # NotRun =>
        \A d \in DOMAIN db_documents :
            ViolatesOnItsOwn(d) =>
                ReportedViolations(d) # {} /\ StoredBenfordFindings(d) # {}

IsPrefix(s, t) == Len(s) <= Len(t) /\ SubSeq(t, 1, Len(s)) = s

\* C18: a call of the bridge, Benford or timeline detector leaves the Document
\* rows and the Entity rows (occurrence counts included) as they were; it only
\* appends findings to the stored ones.
C18_DetectorsOnlyAddFindings ==
    [][/\ db_documents' = db_documents
       /\ doc_dates' = doc_dates
       /\ db_entities' = db_entities
       /\ db_cooccurrences' = db_cooccurrences
       /\ IsPrefix(bridge_findings, bridge_findings')
       /\ IsPrefix(benford_findings, benford_findings')
       /\ IsPrefix(findings, findings')]_vars

\* C18 witness: after three detector calls on a corpus with documents and
\* entities, the bridge detector has stored its finding twice and another
\* detector has stored a finding.
C18_Witness ==
    /\ detector_calls = 3
    /\ Len(bridge_findings) = 2
    /\ bridge_findings[1] = bridge_findings[2]
    /\ Len(benford_findings) + Len(findings) = 1
    /\ db_entities # <<>>
    /\ \E d \in DOMAIN db_documents : db_documents[d].content # NoText

\* The files process_file was called with, in call order.
ProcessedFiles == [k \in 1..Len(process_calls) |-> process_calls[k].file_path]

\* The files of the list ingest_directory built, in list order.
ReturnedFiles == [k \in 1..Len(results) |-> results[k][1]]

\* Call k is one that must succeed: nothing went wrong in it, the file's
\* content extracts to a text, and no earlier call that went through was on a
\* file of the same content.
Succeeds(k) ==
    /\ process_calls[k].fault = "none"
    /\ extractor[fs[files[k]]] = "text"
    /\ \A j \in 1..(k - 1) :
           ~(process_calls[j].fault = "none" /\ fs[files[j]] = fs[files[k]])

\* The files of the calls that must succeed, in call order.
SucceededFiles ==
    LET calls == SelectSeq([k \in 1..Len(process_calls) |-> k], LAMBDA k : Succeeds(k))
    IN [n \in 1..Len(calls) |-> files[calls[n]]]

\* What librarian.ingest_documents returns when reading the files for their
\* hash succeeds as io tells: the files read and extracted, in scan order.
LibrarianKeepsTheReadableFiles ==
    \A io \in [Files -> BOOLEAN] :
        LET out == ingest_documents(1, io)
        IN [k \in 1..Len(out) |-> out[k].filename]
               = SelectSeq([f \in 1..MaxFiles |-> f],
                           LAMBDA f : io[f] /\ extractor[fs[f]] # "error")

C19_EveryFileOnce ==
    /\ ProcessedFiles = SubSeq(files, 1, file_index)
    /\ ReturnedFiles = SucceededFiles
    /\ batch_pc = "returned" => ProcessedFiles = files
    /\ LibrarianKeepsTheReadableFiles

\* C19: batch ingestion passes every scanned file to process_file exactly
\* once, in scan order, whatever happened to the files before it (a hashing
\* error, a failed extraction, an exception); the list it builds holds exactly
\* the files that succeeded; and the batch always gets to return it.
C19_BatchContinuesPastFailures ==
    /\ []C19_EveryFileOnce
    /\ <>(batch_pc = "returned")

\* A batch has returned in which the first file failed (hashing error,
\* exception or failed extraction) and a later file is in the list returned.
C19_Witness ==
    /\ batch_pc = "returned"
    /\ Len(files) >= 2
    /\ ~Succeeds(1)
    /\ \E k \in 2..Len(files) : \E n \in 1..Len(results) : results[n][1] = files[k]

\* C21: a document's fingerprint is a function of its content only -- under
\* each of the three fingerprint functions the two documents have the same
\* fingerprint exactly when their contents are identical, whatever their
\* filenames are and wherever the contents differ.
C21_FingerprintOfContentOnly ==
    fingerprints # <<>> =>
        LET same == hash_docs[1].content = hash_docs[2].content
        IN /\ (fingerprints[1].calculate_hash = fingerprints[2].calculate_hash) <=> same
           /\ (fingerprints[1].compute_file_hash = fingerprints[2].compute_file_hash) <=> same
           /\ (fingerprints[1].compute_document_hash = fingerprints[2].compute_document_hash)
                  <=> same

\* The edges of the graph, and the graph with other weights on the same edges.
Reweighted(g, w) ==
    [nodes |-> g.nodes,
     adj |-> [e \in DOMAIN g.adj |-> IF g.adj[e] > 0 THEN w[{e[1], e[2]}] ELSE 0]]
Reweightings(g) ==
    [{{e[1], e[2]} : e \in {x \in DOMAIN g.adj : g.adj[x] > 0}} -> 1..MaxDocs]

\* u is ranked above v by the scores
RankedAbove(scores, u, v) == Greater(scores[u], scores[v])

\* C22: the centrality calculate_bridge_nodes gives does not depend on the
\* edge weights -- on the same nodes and edges with any other co-occurrence
\* counts, every node has the same centrality and the nodes rank the same.
C22_WeightsDoNotChangeCentrality ==
    bridge_nodes # NotRun =>
        \A w \in Reweightings(graph) :
            LET other == calculate_bridge_nodes(Reweighted(graph, w))
            IN /\ \A v \in graph.nodes : SameRational(other[v], bridge_nodes[1][v])
               /\ \A u, v \in graph.nodes :
                      RankedAbove(other, u, v) <=> RankedAbove(bridge_nodes[1], u, v)

\* The dates of the tokens that are calendar dates with a year in 1900..2050.
SaneDates(tokens) ==
    {t[3] * 10000 + t[1] * 100 + t[2] :
        t \in {x \in Range(tokens) :
                  /\ x[3] >= 1900 /\ x[3] <= 2050
                  /\ x[1] \in 1..12
                  /\ x[2] \in 1..DaysInMonth(x[3], x[1])}}

\* C23: every date that reaches the timeline has a year in 1900..2050 -- of
\* the tokens of a text, those with a year outside the range and those that
\* are no calendar date are discarded, and all the others are used.
C23_OnlySaneDatesReachTheTimeline ==
    /\ engine_dates # NotRun => Range(engine_dates[1]) = SaneDates(date_tokens)
    /\ auditor_dates # NotRun => Range(auditor_dates[1]) = SaneDates(date_tokens)

\* The files for which every extraction strategy yields no text.
NoTextFiles == {f \in Files : extractor[fs[f]] = "error"}

Appended(s, t) == SubSeq(t, Len(s) + 1, Len(t))

\* A detector run stored one finding of this kind and severity per result it
\* returned, after the findings there were, which it left as they were.
OneFindingPerResult(before, after, returned, kind, severity) ==
    /\ IsPrefix(before, after)
    /\ Len(after) = Len(before) + Len(returned)
    /\ \A k \in DOMAIN Appended(before, after) :
           /\ Appended(before, after)[k].finding_type = kind
           /\ Appended(before, after)[k].severity = severity

\* C25: each detector run appends exactly one Finding per result it returns,
\* of the kind and severity of its detector, and changes or removes no Finding
\* that exists: the findings after a run are the findings before plus as many
\* as the results returned.
C25_OneFindingPerResult ==
    [][/\ bridges' # bridges \/ bridge_findings' # bridge_findings =>
              OneFindingPerResult(bridge_findings, bridge_findings', bridges'[1],
                                  "bridge_entity", "high")
       /\ violations' # violations \/ benford_findings' # benford_findings =>
              OneFindingPerResult(benford_findings, benford_findings', violations'[1],
                                  "benfords_violation", "high")
       /\ silence_intervals' # silence_intervals \/ findings' # findings =>
              OneFindingPerResult(findings, findings', silence_intervals'[1],
                                  "silence_interval", "medium")]_vars

\* The documents the loop of the detector put to the chi-square test.
TestedDocuments ==
    {d \in DOMAIN db_documents :
        /\ \A e \in 1..d : ~benford_raises(db_documents[e], min_sample_size)
        /\ Truthy(db_documents[d].content)
        /\ NumbersYielded(d) >= min_sample_size
        /\ get_first_digit_distribution(extract_currency_amounts(db_documents[d].content[1]))
               # <<>>}

\* C26: in the Benford test of a document the observed counts of the nine
\* leading digits (frequency times sample size, as the chi-square statistic
\* takes them) sum to the sample size the expected counts are taken from, which
\* is the number of amounts extracted and the sample size reported -- also
\* when amounts below 1 are among them.  The observed count of digit k is
\* counter[k] / total * n: the sums are compared multiplied by total, the
\* expected ones by 1000.
C26_ObservedCountsSumToSampleSize ==
    violations # NotRun =>
        \A d \in TestedDocuments :
            LET n == NumbersYielded(d)
                observed == get_first_digit_distribution(
                                extract_currency_amounts(db_documents[d].content[1]))[1]
            IN /\ SumFn([k \in Digits |-> observed.counter[k] * n], Digits)
                      = n * observed.total
               /\ SumFn([k \in Digits |-> BENFORDS_DISTRIBUTION[k] * n], Digits) = n * 1000
               /\ \A v \in ReportedViolations(d) : v.sample_size = n
               /\ \A i \in StoredBenfordFindings(d) :
                      benford_findings[i].metadata.sample_size = n

\* C26 witness: a document holding amounts below 1 besides others was tested
\* and reported.
C26_Witness ==
    /\ violations # NotRun
    /\ \E d \in TestedDocuments :
           /\ db_documents[d].content[1][15] > 0
           /\ ReportedViolations(d) # {}
           /\ StoredBenfordFindings(d) # {}

\* C27: at the end of process_documents every unique document is counted in
\* exactly one of processed, skipped, errors -- the three counters sum to the
\* number of unique documents, also when the entity extraction or the
\* relationship finding raised after the insert.
C27_CountersSumToUniqueDocuments ==
    \A c \in Callers :
        pc[c] = "done" =>
            counts[c].processed + counts[c].skipped + counts[c].errors = unique_total[c]

\* The extraction of the content with this fingerprint returns a text.
ExtractionReturns(h) == \E f \in Files : sha256(fs[f]) = h /\ extractor[fs[f]] # "error"

\* C28: a fingerprint is marked as processed only by a process_file whose text
\* extraction for it has returned (a failed extraction marks nothing, so the
\* file is not a duplicate when met again); a process_file that computes a
\* fingerprint reports a duplicate exactly when the fingerprint is marked; and
\* a marked fingerprint stays marked until the tracking is reset.
C28_MarkedOnlyAfterExtraction ==
    [][/\ \A h \in processed_hashes' \ processed_hashes :
              /\ last'.hash = h
              /\ ExtractionReturns(h)
              /\ \E e \in extract_calls' : e.hash = h
       /\ (last' # last /\ last'.hash # None) =>
              (last'.log = "Skipping duplicate file" <=> last'.hash \in processed_hashes)
       /\ processed_hashes \subseteq processed_hashes' \/ processed_hashes' = {}]_vars

\* C28 witness: the extraction of one content has failed and its fingerprint
\* is not marked, while a file of a marked fingerprint has just been reported
\* as a duplicate.
C28_Witness ==
    /\ \E e \in extract_calls : ~ExtractionReturns(e.hash) /\ e.hash \notin processed_hashes
    /\ last.hash \in processed_hashes
    /\ last.log = "Skipping duplicate file"

\* Document i of the list is the first of its hash.
FirstOfItsHash(docs, i) == \A j \in 1..(i - 1) : docs[j].hash # docs[i].hash

\* The positions of the list picked by a test, in list order.
Positions(docs, Test(_, _)) ==
    SelectSeq([i \in 1..Len(docs) |-> i], LAMBDA i : Test(docs, i))

NotFirstOfItsHash(docs, i) == ~FirstOfItsHash(docs, i)

\* C29: detect_duplicates partitions its input -- the unique list holds, in
\* input order, the first document of each hash (so its hashes are pairwise
\* distinct), the duplicates list holds the filename of every other document,
\* and the two lists together are as long as the input.
C29_DetectDuplicatesPartitions ==
    dup_result # NotRun =>
        LET unique == dup_result[1].unique
            duplicates == dup_result[1].duplicates
            firsts == Positions(dup_documents, FirstOfItsHash)
            others == Positions(dup_documents, NotFirstOfItsHash)
        IN /\ unique = [k \in 1..Len(firsts) |-> dup_documents[firsts[k]]]
           /\ \A i, j \in DOMAIN unique : i # j => unique[i].hash # unique[j].hash
           /\ duplicates = [k \in 1..Len(others) |-> dup_documents[others[k]].filename]
           /\ Len(unique) + Len(duplicates) = Len(dup_documents)

\* C29 witness: of three documents the last has the hash of the first; it is
\* the one duplicate, the other two are the unique ones.
C29_Witness ==
    /\ dup_result # NotRun
    /\ Len(dup_documents) = 3
    /\ dup_documents[3].hash = dup_documents[1].hash
    /\ dup_documents[2].hash # dup_documents[1].hash
    /\ Len(dup_result[1].unique) = 2
    /\ dup_result[1].duplicates = <<dup_documents[3].filename>>

\* The stored row of a (name, entity_type) pair.
StoredEntity(name, entity_type) ==
    CHOOSE e \in entities : e.name = name /\ e.entity_type = entity_type

\* C30: add_entity on a (name, type) pair that is already stored returns the
\* id of the stored row and leaves that row's first_seen_doc_id and every other
\* entity's row as they were; only the occurrence count of that row changes.
C30_ExistingEntityKeepsItsRow ==
    [][\A name \in Names, entity_type \in EntityTypes, doc_id \in DocumentIds :
           (EntityIntegrityError(name, entity_type) /\ AddEntity(name, entity_type, doc_id)) =>
               LET stored == StoredEntity(name, entity_type)
               IN /\ add_entity(name, entity_type, doc_id).id = stored.id
                  /\ \E after \in entities' :
                         /\ after.id = stored.id
                         /\ after.name = stored.name
                         /\ after.entity_type = stored.entity_type
                         /\ after.first_seen_doc_id = stored.first_seen_doc_id
                         /\ after.occurrence_count # stored.occurrence_count
                         /\ entities' \ {after} = entities \ {stored}]_vars

\* C30 witness: an entity first seen in document 1 has been added again (its
\* count is 2) once a second document was stored, next to another entity
\* added once.
C30_Witness ==
    /\ Cardinality(corpus_documents) >= 2
    /\ \E e, other \in entities :
           /\ e.occurrence_count = 2
           /\ e.first_seen_doc_id = 1
           /\ other.id # e.id
           /\ other.occurrence_count = 1

====
